---------------------------- MODULE Spec2Model ----------------------------
(* Model of the device automation layer of the network control plane:     *)
(* SimulatedDevice (automation/device.py), DeviceSession                  *)
(* (automation/session.py) and the command executor behind node.cmd.      *)
EXTENDS Integers, Sequences, FiniteSets, TLC

(* ---------------------------------------------------------------------- *)
(* Bounds of the model                                                    *)
(* ---------------------------------------------------------------------- *)

\* most lines a device's applied-configuration history may hold
MaxHistory == 6

\* the executor may raise on one command of a send_config call, chosen
\* among the first MaxFaultPos commands of the call (0: none raises)
MaxFaultPos == 3

\* an abandoned send_config is interrupted after at most this many lines
MaxInterruptLine == 1

(* ---------------------------------------------------------------------- *)
(* Text: a configuration text is the sequence of its lines (split on      *)
(* '\n'); a line is its leading whitespace and its whitespace-separated   *)
(* words.                                                                 *)
(* ---------------------------------------------------------------------- *)

Line(indent, words) == [indent |-> indent, words |-> words]

\* words that begin with '#'
HashWords == {"#", "#rendered"}

\* the characters of the words that name interfaces; any other word is
\* one opaque character that is neither a digit nor part of "eth"
Chars(w) ==
    CASE w = "eth0"  -> <<"e", "t", "h", "0">>
      [] w = "eth1"  -> <<"e", "t", "h", "1">>
      [] w = "eth9"  -> <<"e", "t", "h", "9">>
      [] w = "eth10" -> <<"e", "t", "h", "1", "0">>
      [] w = "eth19" -> <<"e", "t", "h", "1", "9">>
      [] w = "veth1" -> <<"v", "e", "t", "h", "1">>
      [] w = "port2" -> <<"p", "o", "r", "t", "2">>
      [] w = "ge-0/3" -> <<"g", "e", "-", "0", "/", "3">>
      [] OTHER       -> <<w>>

\* the words of the model that contain '/', as (address, prefix length)
SlashWords == {"10.0.3.0/24"}

SlashParts(w) ==
    CASE w = "10.0.3.0/24" -> <<"10.0.3.0", "24">>
      [] OTHER             -> <<w, "">>

Digits == {"0", "1", "2", "3", "4", "5", "6", "7", "8", "9"}

DigitVal(c) ==
    CASE c = "0" -> 0 [] c = "1" -> 1 [] c = "2" -> 2 [] c = "3" -> 3
      [] c = "4" -> 4 [] c = "5" -> 5 [] c = "6" -> 6 [] c = "7" -> 7
      [] c = "8" -> 8 [] c = "9" -> 9

DigitChar(n) ==
    CASE n = 0 -> "0" [] n = 1 -> "1" [] n = 2 -> "2" [] n = 3 -> "3"
      [] n = 4 -> "4" [] n = 5 -> "5" [] n = 6 -> "6" [] n = 7 -> "7"
      [] n = 8 -> "8" [] n = 9 -> "9"

\* str.join(' ') of words, as characters
RECURSIVE JoinChars(_)
JoinChars(ws) ==
    IF ws = <<>> THEN <<>>
    ELSE IF Len(ws) = 1 THEN Chars(ws[1])
    ELSE Chars(ws[1]) \o <<" ">> \o JoinChars(Tail(ws))

\* str.replace('eth', ''): every occurrence removed, left to right
RECURSIVE ReplaceEth(_)
ReplaceEth(cs) ==
    IF Len(cs) < 3 THEN cs
    ELSE IF SubSeq(cs, 1, 3) = <<"e", "t", "h">>
         THEN ReplaceEth(SubSeq(cs, 4, Len(cs)))
         ELSE <<cs[1]>> \o ReplaceEth(Tail(cs))

\* str.isdigit()
IsDigit(cs) == Len(cs) > 0 /\ \A i \in 1..Len(cs) : cs[i] \in Digits

\* int(s) of a digit string
RECURSIVE ToInt(_)
ToInt(cs) ==
    IF cs = <<>> THEN 0
    ELSE 10 * ToInt(SubSeq(cs, 1, Len(cs) - 1)) + DigitVal(cs[Len(cs)])

\* str(n) of a natural number
RECURSIVE ToStr(_)
ToStr(n) ==
    IF n < 10 THEN <<DigitChar(n)>>
    ELSE ToStr(n \div 10) \o <<DigitChar(n % 10)>>

\* line.strip() is empty
IsBlank(line) == line.words = <<>>

\* line.strip().startswith('#')
IsComment(line) == line.words # <<>> /\ line.words[1] \in HashWords

\* config_lines: the non-blank, non-comment lines, in input order
RECURSIVE ConfigLines(_)
ConfigLines(text) ==
    IF text = <<>> THEN <<>>
    ELSE IF ~IsBlank(Head(text)) /\ ~IsComment(Head(text))
         THEN <<Head(text)>> \o ConfigLines(Tail(text))
         ELSE ConfigLines(Tail(text))

\* the places where the words "ip address" are followed by another word
IpAddressAt(line) ==
    {i \in 1..Len(line.words) :
        /\ i + 2 <= Len(line.words)
        /\ line.words[i] = "ip"
        /\ line.words[i + 1] = "address"}

\* 'ip address' in stripped
HasIpAddress(line) ==
    \E i \in 1..Len(line.words) :
        /\ i + 1 <= Len(line.words)
        /\ line.words[i] = "ip"
        /\ line.words[i + 1] = "address"

Min(S) == CHOOSE x \in S : \A y \in S : x <= y


(* ---------------------------------------------------------------------- *)
(* The command executor: node.cmd(command) on the device's node. A node   *)
(* holds the network state its commands act on.                           *)
(* ---------------------------------------------------------------------- *)

\* one command: what it does, the interface it names (its eth suffix, <<>>
\* when it names none) and its other arguments
Cmd(op, dev, args) == [op |-> op, dev |-> dev, args |-> args]

NoIf == <<>>

\* the eth suffixes of the interfaces a node has: hosts number from 0,
\* switches from 1
NodeIfaces(device_type) ==
    IF device_type = "switch" THEN {<<"1">>, <<"2">>} ELSE {<<"0">>, <<"1">>}

NewNode(device_type) ==
    [hostname |-> <<>>,
     addrs    |-> [i \in NodeIfaces(device_type) |-> {}],
     up       |-> {},
     routes   |-> {},
     sysctl   |-> {}]

\* what a command that runs does to the network state of the node
Effect(nd, c) ==
    LET known == c.dev \in DOMAIN nd.addrs IN
    CASE c.op = "hostname"     -> [nd EXCEPT !.hostname = c.args]
      [] c.op = "addr_flush"   ->
            IF known THEN [nd EXCEPT !.addrs[c.dev] = {}] ELSE nd
      [] c.op = "addr_add"     ->
            IF known THEN [nd EXCEPT !.addrs[c.dev] = @ \cup {c.args}] ELSE nd
      [] c.op = "link_up"      ->
            IF known THEN [nd EXCEPT !.up = @ \cup {c.dev}] ELSE nd
      [] c.op = "ip_forward"   ->
            [nd EXCEPT !.sysctl = @ \cup {<<"ip_forward", NoIf>>}]
      [] c.op \in {"proxy_arp", "arp_ignore", "arp_announce"} ->
            IF known THEN [nd EXCEPT !.sysctl = @ \cup {<<c.op, c.dev>>}] ELSE nd
      [] c.op = "route_del"    -> [nd EXCEPT !.routes = @ \ {c.args}]
      [] c.op = "route_add"    -> [nd EXCEPT !.routes = @ \cup {c.args}]
      [] OTHER                 -> nd

\* node.cmd(c): the command runs, unless the executor raises
NodeCmd(nd, c, raises) == IF raises THEN nd ELSE Effect(nd, c)

\* the commands of one line, handed to the executor in order after the
\* commands `done` of the lines before; the one numbered fault in the call
\* raises and ends the line
RECURSIVE RunCmds(_, _, _, _)
RunCmds(nd, done, cmds, fault) ==
    IF cmds = <<>> THEN [node |-> nd, cmds |-> done, raised |-> FALSE]
    ELSE IF Len(done) + 1 = fault
         THEN [node   |-> NodeCmd(nd, Head(cmds), TRUE),
               cmds   |-> Append(done, Head(cmds)),
               raised |-> TRUE]
         ELSE RunCmds(NodeCmd(nd, Head(cmds), FALSE), Append(done, Head(cmds)),
                      Tail(cmds), fault)

(* ---------------------------------------------------------------------- *)
(* SimulatedDevice                                                        *)
(* ---------------------------------------------------------------------- *)

NoInterface == <<>>

NewDevice(device_name, device_type, has_node) ==
    [device_name       |-> device_name,
     device_type       |-> device_type,
     has_node          |-> has_node,
     connected         |-> FALSE,
     config_pending    |-> FALSE,
     applied_config    |-> <<>>,
     current_interface |-> NoInterface]

\* the branch of the if/elif chain a line takes
LineKind(line) ==
    LET w == line.words IN
    IF w[1] = "hostname" /\ Len(w) >= 2 THEN "hostname"
    ELSE IF w[1] = "interface" /\ Len(w) >= 2 THEN "interface"
    ELSE IF \/ (Len(w) >= 3 /\ w[1] = "ip" /\ w[2] = "address")
            \/ (line.indent > 0 /\ HasIpAddress(line)) THEN "ip_address"
    ELSE IF line.indent = 0 /\ Len(w) >= 3 /\ w[1] = "ip" /\ w[2] = "route"
         THEN "ip_route"
    ELSE "other"

\* ip_part.split(): the words after ' ip address ' in the line if it is
\* there, else after 'ip address ' in the stripped line; <<>> stands for
\* the IndexError of a line with neither
IpParts(line) ==
    LET w     == line.words
        occSp == {i \in IpAddressAt(line) : i > 1 \/ line.indent > 0}
    IN  IF occSp # {} THEN SubSeq(w, Min(occSp) + 2, Len(w))
        ELSE IF IpAddressAt(line) # {}
             THEN SubSeq(w, Min(IpAddressAt(line)) + 2, Len(w))
             ELSE <<>>

\* a mapping that numbers the interfaces of a switch as those of a host
TargetIfUnshifted(current_interface, device_type) ==
    IF current_interface # NoInterface
    THEN ReplaceEth(JoinChars(current_interface))
    ELSE IF device_type = "switch" THEN <<"1">> ELSE <<"0">>

\* the name of the interface with the given eth suffix on device D
IfName(D, eth_num) == <<D.device_name, "-eth">> \o eth_num

\* eth suffix of the interface an `ip address` line configures
TargetIf(current_interface, device_type) ==
    IF current_interface # NoInterface
    THEN LET eth_num == ReplaceEth(JoinChars(current_interface)) IN
         IF device_type = "switch"
         THEN IF IsDigit(eth_num) THEN ToStr(ToInt(eth_num) + 1) ELSE <<"1">>
         ELSE eth_num
    ELSE IF device_type = "switch" THEN <<"1">> ELSE <<"0">>

\* cidr_map.get(netmask, '/24'); parts holds the address and maybe a mask
CidrOf(parts) ==
    IF Len(parts) > 1
    THEN CASE parts[2] = "255.255.255.0" -> "/24"
           [] parts[2] = "255.255.0.0"   -> "/16"
           [] parts[2] = "255.0.0.0"     -> "/8"
           [] OTHER                      -> "/24"
    ELSE "/24"

\* commands that add the address before they flush the interface
IpAddressCmdsAddFirst(parts, if_name, device_type) ==
    <<Cmd("addr_add", if_name, <<parts[1], CidrOf(parts)>>),
      Cmd("addr_flush", if_name, <<>>),
      Cmd("link_up", if_name, <<>>)>>
    \o (IF device_type = "switch"
        THEN <<Cmd("ip_forward", NoIf, <<>>),
               Cmd("proxy_arp", if_name, <<>>),
               Cmd("arp_ignore", if_name, <<>>),
               Cmd("arp_announce", if_name, <<>>)>>
        ELSE <<>>)
    \o <<Cmd("addr_show", if_name, <<>>)>>

\* the commands of an `ip address` line, in the order they are issued
IpAddressCmds(parts, if_name, device_type) ==
    <<Cmd("addr_flush", if_name, <<>>),
      Cmd("addr_add", if_name, <<parts[1], CidrOf(parts)>>),
      Cmd("link_up", if_name, <<>>)>>
    \o (IF device_type = "switch"
        THEN <<Cmd("ip_forward", NoIf, <<>>),
               Cmd("proxy_arp", if_name, <<>>),
               Cmd("arp_ignore", if_name, <<>>),
               Cmd("arp_announce", if_name, <<>>)>>
        ELSE <<>>)
    \o <<Cmd("addr_show", if_name, <<>>)>>

\* the network of an `ip route` line in CIDR form: /24 unless it has '/'
RouteNetwork(network) ==
    IF network \in SlashWords THEN SlashParts(network) ELSE <<network, "24">>

\* commands that add the route and then remove it
IpRouteCmdsAddFirst(parts) ==
    IF Len(parts) > 1
    THEN LET route == RouteNetwork(parts[1]) \o <<parts[2]>> IN
         <<Cmd("route_add", NoIf, route), Cmd("route_del", NoIf, route)>>
    ELSE <<>>

\* the commands of an `ip route` line; none without a next hop
IpRouteCmds(parts) ==
    IF Len(parts) > 1
    THEN LET route == RouteNetwork(parts[1]) \o <<parts[2]>> IN
         <<Cmd("route_del", NoIf, route), Cmd("route_add", NoIf, route)>>
    ELSE <<>>

\* what the try block of one line comes to: whether the line is malformed
\* (it raises before any command), the commands it issues and the
\* interface context after it
Plan(malformed, cmds, current_interface) ==
    [malformed |-> malformed, cmds |-> cmds,
     current_interface |-> current_interface]

\* the `ip address` branch, parts being ip_part.split()
IpAddressPlan(parts, current_interface, device_type) ==
    IF parts = <<>>
    THEN Plan(TRUE, <<>>, current_interface)
    ELSE Plan(FALSE,
              IpAddressCmds(parts, TargetIf(current_interface, device_type),
                            device_type),
              current_interface)

\* a try block in which a line that takes no branch clears the interface
\* context
LinePlanOfOtherResets(kind, line, current_interface, device_type) ==
    CASE kind = "hostname" ->
            Plan(FALSE, <<Cmd("hostname", NoIf, Tail(line.words))>>,
                 current_interface)
      [] kind = "interface" ->
            Plan(FALSE, <<>>, Tail(line.words))
      [] kind = "ip_address" ->
            IpAddressPlan(IpParts(line), current_interface, device_type)
      [] kind = "ip_route" ->
            Plan(FALSE, IpRouteCmds(SubSeq(line.words, 3, Len(line.words))),
                 current_interface)
      [] OTHER -> Plan(FALSE, <<>>, NoInterface)

\* the try block for one line, by the branch it takes
LinePlanOf(kind, line, current_interface, device_type) ==
    CASE kind = "hostname" ->
            Plan(FALSE, <<Cmd("hostname", NoIf, Tail(line.words))>>,
                 current_interface)
      [] kind = "interface" ->
            Plan(FALSE, <<>>, Tail(line.words))
      [] kind = "ip_address" ->
            IpAddressPlan(IpParts(line), current_interface, device_type)
      [] kind = "ip_route" ->
            Plan(FALSE, IpRouteCmds(SubSeq(line.words, 3, Len(line.words))),
                 current_interface)
      [] OTHER -> Plan(FALSE, <<>>, current_interface)

LinePlan(line, current_interface, device_type) ==
    LinePlanOf(LineKind(line), line, current_interface, device_type)

\* an except clause that lets the failure leave the loop and the call
OnLineExceptionRaise(st) == [st EXCEPT !.escaped = TRUE]

\* the except clause of the line loop: the failure is logged and the loop
\* goes on with the next line
OnLineException(st) == st


\* the state of the call after a line whose commands ran as `run`
AfterLine(st, kind, p, run) ==
    [st EXCEPT
       !.node = run.node,
       !.cmds = run.cmds,
       !.current_interface = p.current_interface,
       !.trace = Append(@, [kind   |-> kind,
                            ncmds  |-> Len(run.cmds) - Len(st.cmds),
                            raised |-> p.malformed \/ run.raised,
                            current_interface |-> p.current_interface])]

\* the try/except around one line
TryLine(nx, raised) == IF raised THEN OnLineException(nx) ELSE nx

ApplyPlan(st, kind, p, run) ==
    TryLine(AfterLine(st, kind, p, run), p.malformed \/ run.raised)

RunPlan(st, kind, p, fault) ==
    ApplyPlan(st, kind, p, RunCmds(st.node, st.cmds, p.cmds, fault))

\* one pass of the line loop; st is the state of the call so far
ApplyLine(st, line, device_type, fault) ==
    RunPlan(st, LineKind(line),
            LinePlan(line, st.current_interface, device_type), fault)

RECURSIVE ApplyLines(_, _, _, _)
ApplyLines(st, lines, device_type, fault) ==
    IF lines = <<>> \/ st.escaped THEN st
    ELSE ApplyLines(ApplyLine(st, Head(lines), device_type, fault),
                    Tail(lines), device_type, fault)


\* the outcome of a device call: the device and its node afterwards,
\* whether DeviceConnectionError was raised, the commands handed to the
\* executor, the count the call logs and what became of each line
DeviceResult(D, nd, error, st) ==
    [dev |-> D, node |-> nd, error |-> error,
     cmds |-> st.cmds, count |-> st.count, trace |-> st.trace]

\* a call that never reached the line loop
NoLines == [cmds |-> <<>>, count |-> -1, trace |-> <<>>]

\* a connect that does not look at the node
connectNoNodeCheck(D, nd) ==
    DeviceResult([D EXCEPT !.connected = TRUE], nd, FALSE, NoLines)

\* SimulatedDevice.connect
connect(D, nd) ==
    IF D.connected THEN DeviceResult(D, nd, FALSE, NoLines)
    ELSE IF ~D.has_node THEN DeviceResult(D, nd, TRUE, NoLines)
    ELSE DeviceResult([D EXCEPT !.connected = TRUE], nd, FALSE, NoLines)

\* a line loop that keeps the interface context of the call before
LineLoopNoReset(D, nd, lines, fault) ==
    ApplyLines([node              |-> nd,
                current_interface |-> D.current_interface,
                cmds              |-> <<>>,
                trace             |-> <<>>,
                escaped           |-> FALSE],
               lines, D.device_type, fault)

\* the line loop of send_config: the interface context is reset, then each
\* line is applied in order
LineLoop(D, nd, lines, fault) ==
    ApplyLines([node              |-> nd,
                current_interface |-> NoInterface,
                cmds              |-> <<>>,
                trace             |-> <<>>,
                escaped           |-> FALSE],
               lines, D.device_type, fault)

\* an end of send_config that counts only the lines that are commands
SendConfigEndCountsCommands(D, config_lines, st) ==
    DeviceResult([D EXCEPT !.applied_config = @ \o config_lines,
                           !.config_pending = TRUE,
                           !.current_interface = st.current_interface],
                 st.node, FALSE,
                 [cmds  |-> st.cmds,
                  count |-> Cardinality({i \in 1..Len(st.trace) :
                                           st.trace[i].kind # "other"}),
                  trace |-> st.trace])

\* an end of send_config that overwrites the history
SendConfigEndReplaces(D, config_lines, st) ==
    DeviceResult([D EXCEPT !.applied_config = config_lines,
                           !.config_pending = TRUE,
                           !.current_interface = st.current_interface],
                 st.node, FALSE,
                 [cmds  |-> st.cmds,
                  count |-> Len(config_lines),
                  trace |-> st.trace])

\* the end of send_config: the lines are appended to the history and the
\* change is pending (an exception that left the loop would leave the call)
SendConfigEnd(D, config_lines, st) ==
    IF st.escaped
    THEN DeviceResult([D EXCEPT !.current_interface = st.current_interface],
                      st.node, TRUE,
                      [cmds |-> st.cmds, count |-> -1, trace |-> st.trace])
    ELSE DeviceResult([D EXCEPT !.applied_config = @ \o config_lines,
                                !.config_pending = TRUE,
                                !.current_interface = st.current_interface],
                      st.node, FALSE,
                      [cmds  |-> st.cmds,
                       count |-> Len(config_lines),
                       trace |-> st.trace])

\* send_config left by an interrupt when the line loop had come to st
SendConfigInterrupted(D, st) ==
    DeviceResult([D EXCEPT !.current_interface = st.current_interface],
                 st.node, FALSE,
                 [cmds |-> st.cmds, count |-> -1, trace |-> st.trace])

SendConfigLines(D, nd, config_lines, fault) ==
    SendConfigEnd(D, config_lines, LineLoop(D, nd, config_lines, fault))

\* a send_config that does not look at the connection or the node
send_config_unchecked(D, nd, text, fault) ==
    SendConfigLines(D, nd, ConfigLines(text), fault)

\* SimulatedDevice.send_config
send_config(D, nd, text, fault) ==
    IF ~D.connected THEN DeviceResult(D, nd, TRUE, NoLines)
    ELSE IF ~D.has_node THEN DeviceResult(D, nd, TRUE, NoLines)
    ELSE SendConfigLines(D, nd, ConfigLines(text), fault)

\* a commit that raises when nothing is pending
commit_raises_when_clean(D, nd) ==
    IF ~D.connected \/ ~D.config_pending
    THEN DeviceResult(D, nd, TRUE, NoLines)
    ELSE DeviceResult([D EXCEPT !.config_pending = FALSE], nd, FALSE, NoLines)

\* SimulatedDevice.commit
commit(D, nd) ==
    IF ~D.connected THEN DeviceResult(D, nd, TRUE, NoLines)
    ELSE IF ~D.config_pending THEN DeviceResult(D, nd, FALSE, NoLines)
    ELSE DeviceResult([D EXCEPT !.config_pending = FALSE], nd, FALSE, NoLines)

\* a disconnect that drops what is pending
disconnect_drops_pending(D, nd) ==
    IF ~D.connected THEN DeviceResult(D, nd, FALSE, NoLines)
    ELSE DeviceResult([D EXCEPT !.connected = FALSE,
                                !.config_pending = FALSE],
                      nd, FALSE, NoLines)

\* SimulatedDevice.disconnect
disconnect(D, nd) ==
    IF ~D.connected THEN DeviceResult(D, nd, FALSE, NoLines)
    ELSE DeviceResult([D EXCEPT !.connected = FALSE], nd, FALSE, NoLines)

(* ---------------------------------------------------------------------- *)
(* DeviceSession                                                          *)
(* ---------------------------------------------------------------------- *)

NewSession == [connected |-> FALSE]

\* the outcome of a session call: the session, the device and its node
\* afterwards, whether DeviceConnectionError was raised, the device
\* methods the call invoked, in order, and what send_config did
SessionResult(S, r, error, calls) ==
    [sess |-> S, dev |-> r.dev, node |-> r.node, error |-> error,
     calls |-> calls, cmds |-> r.cmds, count |-> r.count, trace |-> r.trace]

\* a connect that marks the session connected before it knows whether the
\* device connected
SessionConnectedAnyway(S, r) ==
    SessionResult([S EXCEPT !.connected = TRUE], r, r.error, <<"connect">>)

\* DeviceSession.connect, r being what device.connect() did
SessionConnected(S, r) ==
    IF r.error THEN SessionResult(S, r, TRUE, <<"connect">>)
    ELSE SessionResult([S EXCEPT !.connected = TRUE], r, FALSE, <<"connect">>)

session_connect(S, D, nd) ==
    IF S.connected
    THEN SessionResult(S, DeviceResult(D, nd, FALSE, NoLines), FALSE, <<>>)
    ELSE SessionConnected(S, connect(D, nd))

\* DeviceSession.disconnect, r being what device.disconnect() did: a
\* failure of the device is logged, not raised
SessionDisconnected(S, r) ==
    IF r.error THEN SessionResult(S, r, FALSE, <<"disconnect">>)
    ELSE SessionResult([S EXCEPT !.connected = FALSE], r, FALSE, <<"disconnect">>)

\* a disconnect that calls the device whatever the session's state
session_disconnect_always(S, D, nd) ==
    SessionDisconnected(S, disconnect(D, nd))

session_disconnect(S, D, nd) ==
    IF ~S.connected
    THEN SessionResult(S, DeviceResult(D, nd, FALSE, NoLines), FALSE, <<>>)
    ELSE SessionDisconnected(S, disconnect(D, nd))

\* a __exit__ that leaves the device connected
session_exit_nothing(S, D, nd) ==
    SessionResult(S, DeviceResult(D, nd, FALSE, NoLines), FALSE, <<>>)

\* DeviceSession.__enter__
session_enter(S, D, nd) == session_connect(S, D, nd)

\* DeviceSession.__exit__
session_exit(S, D, nd) == session_disconnect(S, D, nd)

\* the commit step of deploy_config, r being what send_config did and c
\* what commit did
DeployCommitted(S, r, c) ==
    SessionResult(S, [c EXCEPT !.cmds = r.cmds, !.count = r.count,
                               !.trace = r.trace],
                  c.error, <<"send_config", "commit">>)

\* a deploy_config that drops the session when send_config fails
DeploySentDropsSession(S, r, do_commit) ==
    IF r.error
    THEN SessionResult([S EXCEPT !.connected = FALSE], r, TRUE, <<"send_config">>)
    ELSE IF do_commit THEN DeployCommitted(S, r, commit(r.dev, r.node))
    ELSE SessionResult(S, r, FALSE, <<"send_config">>)

\* deploy_config after send_config, r being what send_config did
DeploySent(S, r, do_commit) ==
    IF r.error THEN SessionResult(S, r, TRUE, <<"send_config">>)
    ELSE IF do_commit THEN DeployCommitted(S, r, commit(r.dev, r.node))
    ELSE SessionResult(S, r, FALSE, <<"send_config">>)

\* DeviceSession.deploy_config
deploy_config(S, D, nd, text, do_commit, fault) ==
    IF ~S.connected
    THEN SessionResult(S, DeviceResult(D, nd, FALSE, NoLines), TRUE, <<>>)
    ELSE DeploySent(S, send_config(D, nd, text, fault), do_commit)

(* ---------------------------------------------------------------------- *)
(* The session on a NetworkDevice whose lifecycle methods can fail        *)
(* ---------------------------------------------------------------------- *)

\* a method of the device raises for a reason of the device's own (its
\* executor fails): nothing is changed
Raised(D, nd) == DeviceResult(D, nd, TRUE, NoLines)

\* what a lifecycle method of the device does: it raises, or it does what
\* SimulatedDevice does
DeviceMethod(raises, D, nd, r) == IF raises THEN Raised(D, nd) ELSE r

\* DeviceSession.connect on a device whose connect may raise
session_connect_on(S, D, nd, raises) ==
    IF S.connected
    THEN SessionResult(S, DeviceResult(D, nd, FALSE, NoLines), FALSE, <<>>)
    ELSE SessionConnected(S, DeviceMethod(raises, D, nd, connect(D, nd)))

\* DeviceSession.disconnect on a device whose disconnect may raise
session_disconnect_on(S, D, nd, raises) ==
    IF ~S.connected
    THEN SessionResult(S, DeviceResult(D, nd, FALSE, NoLines), FALSE, <<>>)
    ELSE SessionDisconnected(S, DeviceMethod(raises, D, nd, disconnect(D, nd)))

\* deploy_config with commit on a device whose commit may raise, r being
\* what send_config did
DeploySentOn(S, r, raises) ==
    IF r.error THEN SessionResult(S, r, TRUE, <<"send_config">>)
    ELSE DeployCommitted(S, r, DeviceMethod(raises, r.dev, r.node,
                                            commit(r.dev, r.node)))

deploy_config_on(S, D, nd, text, raises) ==
    IF ~S.connected
    THEN SessionResult(S, DeviceResult(D, nd, FALSE, NoLines), TRUE, <<>>)
    ELSE DeploySentOn(S, send_config(D, nd, text, 0), raises)

(* ---------------------------------------------------------------------- *)
(* Telemetry metrics (telemetry/metrics.py)                               *)
(*                                                                        *)
(* Latencies are in whole milliseconds and losses in whole percent: the   *)
(* floats of the program are modelled by integers.                        *)
(* ---------------------------------------------------------------------- *)

\* Python's None, for an optional field that is absent
None == [none |-> TRUE]

\* the truth value of an optional dataclass field: an object is true
Truthy(x) == x # None

LatencyMetrics(min_ms, avg_ms, max_ms, loss_percent) ==
    [min_latency_ms |-> min_ms,
     avg_latency_ms |-> avg_ms,
     max_latency_ms |-> max_ms,
     packet_loss_percent |-> loss_percent]

\* hops: the ip_address of each PathHop, in order
PathMetrics(hops) == [hops |-> hops, total_hops |-> Len(hops)]

\* TelemetryMetrics(): every optional field absent, no interface counters
TelemetryMetrics ==
    [latency |-> None, path |-> None, interfaces |-> <<>>]

(* ---------------------------------------------------------------------- *)
(* TelemetryCollector (telemetry/collector.py): the parsers               *)
(*                                                                        *)
(* The output of a diagnostic tool is the sequence of its characters; a   *)
(* run of letters is written as one element ("packet", "ms").             *)
(* ---------------------------------------------------------------------- *)

\* \s
Whitespace == {" ", "\n"}

\* [\d.]
NumChars == Digits \cup {"."}

\* the index after the longest run of characters of class C that starts
\* at i (i itself if there is none)
RECURSIVE RunEnd(_, _, _)
RunEnd(cs, i, C) ==
    IF i <= Len(cs) /\ cs[i] \in C THEN RunEnd(cs, i + 1, C) ELSE i

\* the same for the characters that are not of class C
RECURSIVE RunEndNot(_, _, _)
RunEndNot(cs, i, C) ==
    IF i <= Len(cs) /\ cs[i] \notin C THEN RunEndNot(cs, i + 1, C) ELSE i

\* the literal lit stands in cs at position i
LiteralAt(cs, i, lit) ==
    i + Len(lit) - 1 <= Len(cs) /\ SubSeq(cs, i, i + Len(lit) - 1) = lit

\* float(s) of a string of digits and dots raises ValueError unless s has
\* a digit and at most one dot
FloatRaises(cs) ==
    \/ \A i \in 1..Len(cs) : cs[i] \notin Digits
    \/ Cardinality({i \in 1..Len(cs) : cs[i] = "."}) > 1

\* float(s): the numerals of the model have no fraction digit other than
\* 0, so the value is that of the digits before the dot
ToFloat(cs) == ToInt(SubSeq(cs, 1, RunEnd(cs, 1, Digits) - 1))

\* int(s) raises ValueError unless s is a digit string (the model's
\* strings carry no sign and no underscore)
IntRaises(cs) == ~IsDigit(cs)

\* output.split('\n')
RECURSIVE SplitLines(_)
SplitLines(cs) ==
    IF RunEndNot(cs, 1, {"\n"}) > Len(cs) THEN <<cs>>
    ELSE <<SubSeq(cs, 1, RunEndNot(cs, 1, {"\n"}) - 1)>>
            \o SplitLines(SubSeq(cs, RunEndNot(cs, 1, {"\n"}) + 1, Len(cs)))

\* line.strip()
RECURSIVE Strip(_)
Strip(cs) ==
    IF cs = <<>> THEN cs
    ELSE IF cs[1] \in Whitespace THEN Strip(Tail(cs))
    ELSE IF cs[Len(cs)] \in Whitespace THEN Strip(SubSeq(cs, 1, Len(cs) - 1))
    ELSE cs

\* s.split(): the runs of characters that are not whitespace
RECURSIVE SplitWords(_)
SplitWords(cs) ==
    IF cs = <<>> THEN <<>>
    ELSE IF cs[1] \in Whitespace THEN SplitWords(Tail(cs))
    ELSE <<SubSeq(cs, 1, RunEndNot(cs, 1, Whitespace) - 1)>>
            \o SplitWords(SubSeq(cs, RunEndNot(cs, 1, Whitespace), Len(cs)))

\* what a parser did: it raised ValueError, or it returned value
Parsed(value) == [raised |-> FALSE, value |-> value]

ParseRaised == [raised |-> TRUE, value |-> None]

\* r'(\d+(?:\.\d+)?)% packet loss' tried at position s, d1 being the end
\* of \d+ and d2 the end of the optional fraction: the index after group
\* 1, or 0 if the pattern does not match at s
LossEndOf(cs, s, d1, d2) ==
    IF d1 = s THEN 0
    ELSE IF d2 > d1 + 1 /\ LiteralAt(cs, d2, <<"%", " ", "packet", " ", "loss">>)
    THEN d2
    ELSE IF LiteralAt(cs, d1, <<"%", " ", "packet", " ", "loss">>) THEN d1
    ELSE 0

FractionEnd(cs, d1) ==
    IF d1 <= Len(cs) /\ cs[d1] = "." THEN RunEnd(cs, d1 + 1, Digits) ELSE d1

LossEnd(cs, s) ==
    LossEndOf(cs, s, RunEnd(cs, s, Digits), FractionEnd(cs, RunEnd(cs, s, Digits)))

\* re.search of the loss pattern: the leftmost position where it matches
LossMatches(cs) == {s \in 1..Len(cs) : LossEnd(cs, s) # 0}

\* packet_loss: group 1 of the leftmost match as a float, 0.0 without one
PacketLossOf(cs, at) ==
    IF at = {} THEN 0
    ELSE ToFloat(SubSeq(cs, Min(at), LossEnd(cs, Min(at)) - 1))

\* r'min/avg/max[^=]*=\s*([\d.]+)/([\d.]+)/([\d.]+)' tried at
\* position i: the three groups, or <<>> if the pattern does not match
\* there; e is where the first '=' after the label stands
SummaryLabel == <<"min", "/", "avg", "/", "max">>

GroupsFrom(cs, g1) ==
    LET e1 == RunEnd(cs, g1, NumChars)
        e2 == RunEnd(cs, e1 + 1, NumChars)
        e3 == RunEnd(cs, e2 + 1, NumChars)
    IN  IF /\ e1 > g1 /\ e1 <= Len(cs) /\ cs[e1] = "/"
           /\ e2 > e1 + 1 /\ e2 <= Len(cs) /\ cs[e2] = "/"
           /\ e3 > e2 + 1
        THEN <<SubSeq(cs, g1, e1 - 1), SubSeq(cs, e1 + 1, e2 - 1),
               SubSeq(cs, e2 + 1, e3 - 1)>>
        ELSE <<>>

SummaryAfter(cs, e) ==
    IF e > Len(cs) THEN <<>>
    ELSE GroupsFrom(cs, RunEnd(cs, e + 1, Whitespace))

SummaryAt(cs, i) ==
    IF ~LiteralAt(cs, i, SummaryLabel) THEN <<>>
    ELSE SummaryAfter(cs, RunEndNot(cs, i + Len(SummaryLabel), {"="}))

SummaryMatches(cs) == {i \in 1..Len(cs) : SummaryAt(cs, i) # <<>>}

\* min, avg and max of the groups of the summary line
LatencyOf(groups, packet_loss) ==
    IF \E k \in 1..3 : FloatRaises(groups[k]) THEN ParseRaised
    ELSE Parsed(LatencyMetrics(ToFloat(groups[1]), ToFloat(groups[2]),
                               ToFloat(groups[3]), packet_loss))

ParsePingOf(cs, packet_loss, at) ==
    IF at = {}
    THEN Parsed(LatencyMetrics(0, 0, 0, packet_loss))
    ELSE LatencyOf(SummaryAt(cs, Min(at)), packet_loss)

\* TelemetryCollector._parse_ping_output
parse_ping_output(output) ==
    ParsePingOf(output, PacketLossOf(output, LossMatches(output)),
                SummaryMatches(output))

\* r'^\s*(\d+)\s+([^\s(]+)\s*\(([^)]+)\)\s+([\d.]+)\s*ms' matched
\* at the start of a stripped line: the hop number, the host name, the
\* address and the latency as written, or <<>> if the line does not match
HopLatency(cs, n, h, a, l) ==
    LET l2 == RunEnd(cs, l, Whitespace)
        l3 == RunEnd(cs, l2, NumChars)
        l4 == RunEnd(cs, l3, Whitespace)
    IN  IF l2 > l /\ l3 > l2 /\ LiteralAt(cs, l4, <<"ms">>)
        THEN <<n, h, a, SubSeq(cs, l2, l3 - 1)>>
        ELSE <<>>

HopAddress(cs, n, h, p) ==
    LET a2 == RunEndNot(cs, p + 1, {")"})
    IN  IF p <= Len(cs) /\ cs[p] = "(" /\ a2 > p + 1 /\ a2 <= Len(cs)
        THEN HopLatency(cs, n, h, SubSeq(cs, p + 1, a2 - 1), a2 + 1)
        ELSE <<>>

HopHost(cs, n, h1) ==
    LET h2 == RunEndNot(cs, h1, Whitespace \cup {"("})
    IN  IF h2 > h1
        THEN HopAddress(cs, n, SubSeq(cs, h1, h2 - 1),
                        RunEnd(cs, h2, Whitespace))
        ELSE <<>>

HopMatch(cs) ==
    LET n2 == RunEnd(cs, 1, Digits)
        h1 == RunEnd(cs, n2, Whitespace)
    IN  IF n2 > 1 /\ h1 > n2 THEN HopHost(cs, SubSeq(cs, 1, n2 - 1), h1)
        ELSE <<>>

\* one hop of the path; the validator reads its ip_address
PathHop(m) ==
    [hop_number |-> ToInt(m[1]),
     hostname   |-> IF m[2] = <<"*">> THEN None ELSE m[2],
     ip_address |-> m[3],
     latency_ms |-> ToFloat(m[4])]

\* the loop of _parse_traceroute_output over the lines, hops being the
\* hops found so far
RECURSIVE TracerouteLines(_, _)
TracerouteLines(lines, hops) ==
    IF lines = <<>> THEN Parsed(hops)
    ELSE IF Strip(Head(lines)) = <<>> \/ Strip(Head(lines))[1] = "traceroute"
    THEN TracerouteLines(Tail(lines), hops)
    ELSE IF HopMatch(Strip(Head(lines))) = <<>>
    THEN TracerouteLines(Tail(lines), hops)
    ELSE IF FloatRaises(HopMatch(Strip(Head(lines)))[4]) THEN ParseRaised
    ELSE TracerouteLines(Tail(lines),
                         Append(hops, PathHop(HopMatch(Strip(Head(lines))))))

\* PathMetrics of the hops found
PathOf(r) ==
    IF r.raised THEN r
    ELSE Parsed(PathMetrics([i \in 1..Len(r.value) |-> r.value[i].ip_address]))

\* TelemetryCollector._parse_traceroute_output
parse_traceroute_output(output) ==
    PathOf(TracerouteLines(SplitLines(output), <<>>))

\* the least number of statistics fields of a /proc/net/dev line
StatsFields == 16

\* the fields of a line that are converted with int(), counted from 1
CounterFields == {1, 2, 4, 9, 10, 12}

\* the places of ':' in a line
Colons(cs) == {i \in 1..Len(cs) : cs[i] = ":"}

InterfaceCounter(interface_name, stats) ==
    [interface_name   |-> interface_name,
     bytes_received   |-> ToInt(stats[1]),
     packets_received |-> ToInt(stats[2]),
     drops_received   |-> ToInt(stats[4]),
     bytes_sent       |-> ToInt(stats[9]),
     packets_sent     |-> ToInt(stats[10]),
     drops_sent       |-> ToInt(stats[12])]

\* one stripped line with exactly one ':' at c: skipped ("skip"), or a
\* conversion raised ("raise"), or its counter
CounterOf(interface_name, stats) ==
    IF Len(stats) < StatsFields THEN "skip"
    ELSE IF \E k \in CounterFields : IntRaises(stats[k]) THEN "raise"
    ELSE "counter"

ProcLineKind(cs) ==
    IF cs = <<>> \/ Colons(cs) = {} THEN "skip"
    ELSE IF Cardinality(Colons(cs)) # 1 THEN "skip"
    ELSE CounterOf(Strip(SubSeq(cs, 1, Min(Colons(cs)) - 1)),
                   SplitWords(SubSeq(cs, Min(Colons(cs)) + 1, Len(cs))))

ProcLineCounter(cs) ==
    InterfaceCounter(Strip(SubSeq(cs, 1, Min(Colons(cs)) - 1)),
                     SplitWords(SubSeq(cs, Min(Colons(cs)) + 1, Len(cs))))

\* the loop of _parse_proc_net_dev over the lines
RECURSIVE ProcLines(_, _)
ProcLines(lines, counters) ==
    IF lines = <<>> THEN Parsed(counters)
    ELSE IF ProcLineKind(Strip(Head(lines))) = "skip"
    THEN ProcLines(Tail(lines), counters)
    ELSE IF ProcLineKind(Strip(Head(lines))) = "raise" THEN ParseRaised
    ELSE ProcLines(Tail(lines),
                   Append(counters, ProcLineCounter(Strip(Head(lines)))))

\* TelemetryCollector._parse_proc_net_dev
parse_proc_net_dev(output) == ProcLines(SplitLines(output), <<>>)

(* ---------------------------------------------------------------------- *)
(* TelemetryCollector: the collection steps                               *)
(* ---------------------------------------------------------------------- *)

\* what running a diagnostic tool came to: the call raised (the node is
\* not there, the tool is not installed, subprocess.run timed out), or it
\* returned with an exit status and the text the tool wrote
Invocation(raises, returncode, stdout) ==
    [raises |-> raises, returncode |-> returncode, stdout |-> stdout]

\* what a collection step did: it raised TelemetryError, or it returned
\* value
Collected(value) == [error |-> FALSE, value |-> value]

CollectFailed == [error |-> TRUE, value |-> None]

\* the try block of a collection step, r being what its parser did
CollectParsed(r) == IF r.raised THEN CollectFailed ELSE Collected(r.value)

\* TelemetryCollector.collect_latency
collect_latency(inv) ==
    IF inv.raises THEN CollectFailed
    ELSE CollectParsed(parse_ping_output(inv.stdout))

\* TelemetryCollector.collect_path
collect_path(inv) ==
    IF inv.raises THEN CollectFailed
    ELSE CollectParsed(parse_traceroute_output(inv.stdout))

\* TelemetryCollector.collect_interface_counters
collect_interface_counters(inv) ==
    IF inv.raises THEN CollectFailed
    ELSE CollectParsed(parse_proc_net_dev(inv.stdout))

\* what collect_all has come to: the snapshot so far, the sub-steps it
\* attempted, in order, and those of them that failed
Collecting(metrics, attempted, failed) ==
    [metrics |-> metrics, attempted |-> attempted, failed |-> failed]

\* a collect_all that gives up at the first sub-step that fails
CollectStepGivesUp(c, field, r) ==
    IF c.failed # {} THEN c
    ELSE Collecting(IF r.error THEN c.metrics
                    ELSE [c.metrics EXCEPT ![field] = r.value],
                    Append(c.attempted, field),
                    IF r.error THEN c.failed \cup {field} ELSE c.failed)

\* one sub-step of collect_all: `field` is assigned unless the step raised
CollectStep(c, field, r) ==
    Collecting(IF r.error THEN c.metrics
               ELSE [c.metrics EXCEPT ![field] = r.value],
               Append(c.attempted, field),
               IF r.error THEN c.failed \cup {field} ELSE c.failed)

\* the third sub-step: nothing is collected without a topology manager
CollectInterfaces(c, has_manager, inv) ==
    IF has_manager
    THEN CollectStep(c, "interfaces", collect_interface_counters(inv))
    ELSE c

\* TelemetryCollector.collect_all
collect_all(has_manager, ping, traceroute, proc) ==
    CollectInterfaces(
        CollectStep(
            CollectStep(Collecting(TelemetryMetrics, <<>>, {}),
                        "latency", collect_latency(ping)),
            "path", collect_path(traceroute)),
        has_manager, proc)

(* ---------------------------------------------------------------------- *)
(* NetworkValidator (validation/validator.py)                             *)
(* ---------------------------------------------------------------------- *)

DefaultLatencyThresholdMs == 50

DefaultPacketLossThresholdPercent == 5

DefaultPathChangeAllowed == FALSE

\* NetworkValidator.__init__
NetworkValidator(latency_ms, loss_percent, path_change_allowed) ==
    [latency_threshold_ms |-> latency_ms,
     packet_loss_threshold_percent |-> loss_percent,
     path_change_allowed |-> path_change_allowed]

\* NetworkValidator()
DefaultValidator ==
    NetworkValidator(DefaultLatencyThresholdMs,
                     DefaultPacketLossThresholdPercent,
                     DefaultPathChangeAllowed)

\* one evidence line: its fixed text and the values formatted into it
Detail(line, values) == [line |-> line, values |-> values]

\* ValidationResult; the message of a result is determined by its status
ValidationResult(status, details) == [status |-> status, details |-> details]

is_pass(result) == result.status = "pass"

\* a latency check that fails at the threshold already
validate_latency_at_threshold(self, baseline, current) ==
    IF current.avg_latency_ms - baseline.avg_latency_ms >= self.latency_threshold_ms
    THEN ValidationResult("fail", <<Detail("Latency exceeded baseline", <<>>)>>)
    ELSE ValidationResult("pass", <<Detail("Latency within threshold", <<>>)>>)

\* NetworkValidator._validate_latency
validate_latency(self, baseline, current) ==
    LET latency_increase == current.avg_latency_ms - baseline.avg_latency_ms
    IN  IF latency_increase > self.latency_threshold_ms
        THEN ValidationResult("fail",
                 <<Detail("Latency exceeded baseline",
                          <<latency_increase, baseline.avg_latency_ms,
                            current.avg_latency_ms>>)>>)
        ELSE ValidationResult("pass",
                 <<Detail("Latency within threshold",
                          <<current.avg_latency_ms, baseline.avg_latency_ms>>)>>)

\* NetworkValidator._validate_packet_loss
validate_packet_loss(self, baseline, current) ==
    LET loss_increase == current.packet_loss_percent - baseline.packet_loss_percent
    IN  IF loss_increase > self.packet_loss_threshold_percent
        THEN ValidationResult("fail",
                 <<Detail("Packet loss exceeded threshold",
                          <<loss_increase, baseline.packet_loss_percent,
                            current.packet_loss_percent>>)>>)
        ELSE ValidationResult("pass",
                 <<Detail("Packet loss within threshold",
                          <<current.packet_loss_percent,
                            baseline.packet_loss_percent>>)>>)

\* a path check that fails on a changed path
validate_path_fails(self, baseline, current) ==
    IF baseline.hops # current.hops
    THEN ValidationResult("fail", <<Detail("Path change detected", <<>>)>>)
    ELSE ValidationResult("pass", <<Detail("Path unchanged", <<>>)>>)

\* NetworkValidator._validate_path
validate_path(self, baseline, current) ==
    IF baseline.hops # current.hops
    THEN ValidationResult("warning",
             <<Detail("Path change detected",
                      <<Len(baseline.hops), Len(current.hops)>>),
               Detail("Baseline path", baseline.hops),
               Detail("Current path", current.hops)>>)
    ELSE ValidationResult("pass", <<Detail("Path unchanged", <<>>)>>)

\* the sub-checks of validate that run, in the order they run, each with
\* its name and its result
SubChecks(self, baseline, current) ==
    (IF Truthy(baseline.latency) /\ Truthy(current.latency)
     THEN <<[check |-> "latency",
             result |-> validate_latency(self, baseline.latency, current.latency)]>>
     ELSE <<>>)
    \o (IF Truthy(baseline.latency) /\ Truthy(current.latency)
        THEN <<[check |-> "loss",
                result |-> validate_packet_loss(self, baseline.latency,
                                                current.latency)]>>
        ELSE <<>>)
    \o (IF Truthy(baseline.path) /\ Truthy(current.path)
        THEN <<[check |-> "path",
                result |-> validate_path(self, baseline.path, current.path)]>>
        ELSE <<>>)

\* a validate that fails on every sub-check that did not pass
SetsFailAlways(self, sub) == ~is_pass(sub.result)

\* whether the result of one sub-check sets the overall status to fail
SetsFail(self, sub) ==
    IF sub.check = "path"
    THEN ~is_pass(sub.result) /\ ~self.path_change_allowed
    ELSE ~is_pass(sub.result)

\* a validate that puts the evidence of a later sub-check first
RECURSIVE ValidateFoldPrepends(_, _, _, _)
ValidateFoldPrepends(self, subs, status, details) ==
    IF subs = <<>> THEN ValidationResult(status, details)
    ELSE ValidateFoldPrepends(self, Tail(subs),
                              IF SetsFail(self, Head(subs)) THEN "fail" ELSE status,
                              Head(subs).result.details \o details)

\* validate, folding over the sub-checks that ran
RECURSIVE ValidateFold(_, _, _, _)
ValidateFold(self, subs, status, details) ==
    IF subs = <<>> THEN ValidationResult(status, details)
    ELSE ValidateFold(self, Tail(subs),
                      IF SetsFail(self, Head(subs)) THEN "fail" ELSE status,
                      details \o Head(subs).result.details)

\* NetworkValidator.validate
validate(self, baseline, current) ==
    ValidateFold(self, SubChecks(self, baseline, current), "pass", <<>>)

TotalLossPercent == 100

DegradedLossPercent == 50

\* a connectivity check that fails at half of the packets lost already
validate_connectivity_at_half(self, metrics) ==
    IF Truthy(metrics.latency)
          /\ metrics.latency.packet_loss_percent < DegradedLossPercent
    THEN ValidationResult("pass", <<Detail("Connectivity OK", <<>>)>>)
    ELSE ValidationResult("fail", <<Detail("Connectivity degraded", <<>>)>>)

\* NetworkValidator.validate_connectivity
validate_connectivity(self, metrics) ==
    IF Truthy(metrics.latency)
    THEN IF metrics.latency.packet_loss_percent >= TotalLossPercent
         THEN ValidationResult("fail",
                  <<Detail("Connectivity failed: 100% packet loss", <<>>)>>)
         ELSE IF metrics.latency.packet_loss_percent > DegradedLossPercent
         THEN ValidationResult("fail",
                  <<Detail("Connectivity degraded",
                           <<metrics.latency.packet_loss_percent>>)>>)
         ELSE ValidationResult("pass",
                  <<Detail("Connectivity OK",
                           <<metrics.latency.packet_loss_percent,
                             metrics.latency.avg_latency_ms>>)>>)
    ELSE ValidationResult("fail",
             <<Detail("Connectivity validation failed: no latency metrics available",
                      <<>>)>>)

(* ---------------------------------------------------------------------- *)
(* The configuration texts the callers send                               *)
(* ---------------------------------------------------------------------- *)

\* a rendered configuration: a comment, an interface block, a blank line
\* and a static route
TextRendered ==
    <<Line(0, <<"#rendered">>),
      Line(0, <<"hostname", "r1">>),
      Line(0, <<"interface", "eth1">>),
      Line(1, <<"ip", "address", "10.0.1.1", "255.255.0.0">>),
      Line(0, <<>>),
      Line(0, <<"ip", "route", "10.0.2.0", "10.0.1.254">>)>>

\* a configuration with a line that is no known command
TextBanner ==
    <<Line(0, <<"hostname", "r2">>),
      Line(0, <<"banner", "motd", "foo">>),
      Line(0, <<"ip", "address", "10.0.0.2">>)>>

\* a configuration whose second line is malformed: `ip address` with no
\* address under an interface block
TextMalformed ==
    <<Line(0, <<"interface", "eth0">>),
      Line(1, <<"ip", "address">>),
      Line(0, <<"ip", "route", "10.0.3.0/24", "10.0.0.254">>)>>

\* a configuration whose address line comes before its interface line, and
\* whose route line is indented
TextTrailing ==
    <<Line(0, <<"ip", "address", "10.0.0.3", "255.0.0.0">>),
      Line(0, <<"interface", "eth1">>),
      Line(1, <<"ip", "route", "10.0.4.0", "10.0.0.254">>)>>

\* a configuration with no line to process
TextEmpty ==
    <<Line(0, <<"#">>),
      Line(0, <<>>)>>

Configs == <<TextRendered, TextBanner, TextMalformed, TextTrailing, TextEmpty>>

ConfigIds == 1..Len(Configs)

NoConfig == 0

(* ---------------------------------------------------------------------- *)
(* State                                                                  *)
(* ---------------------------------------------------------------------- *)

VARIABLES
    devs,   \* the devices of the deployment
    dev,    \* dev[d]: the SimulatedDevice object d
    node,   \* node[d]: the network state behind dev[d].node
    sess,   \* sess[d]: the DeviceSession on device d
    pc,     \* pc[d]: where the `with DeviceSession(d)` block of the caller is
    last,   \* the most recent call and its outcome
    issued, \* issued[d]: the commands the scripted sessions gave d's executor
    validator,  \* the NetworkValidator object
    metrics,    \* the baseline and the current TelemetryMetrics snapshot
    verdict,    \* the most recent call on the validator and its result
    collected   \* the most recent call on the collector and its outcome

vars ==
    <<devs, dev, node, sess, pc, last, issued,
      validator, metrics, verdict, collected>>

\* the deployment's part of the state and the observation's part
deployment == <<devs, dev, node, sess, pc, last, issued>>

observation == <<validator, metrics, verdict, collected>>

DeviceTypes == {"switch", "host"}

\* the most recent call: the device, the method, whether it raised
\* DeviceConnectionError, the device methods a session call invoked, the
\* text and the commit flag it was given, the command on which the
\* executor raised (0: none), what send_config did, the state the call
\* found, whether it repeats the call before it, and the device method
\* that raised for a reason of the device's own ("none": no such failure)
Fired(r, fault) == IF fault <= Len(r.cmds) THEN fault ELSE 0

Pre(d) ==
    [connected |-> dev[d].connected,
     pending   |-> dev[d].config_pending,
     session   |-> sess[d].connected,
     pc        |-> pc[d]]

Last(d, op, r, calls, cfg, do_commit, fault) ==
    [d |-> d, op |-> op, error |-> r.error, calls |-> calls,
     cfg |-> cfg, commit |-> do_commit, fault |-> Fired(r, fault),
     cmds |-> r.cmds, count |-> r.count, trace |-> r.trace,
     pre |-> Pre(d), raised |-> "none",
     again |-> /\ last.d = d /\ last.op = op /\ last.cfg = cfg
               /\ last.commit = do_commit /\ last.fault = Fired(r, fault)
               /\ last.error = r.error]

\* no call on the validator yet
NoVerdict ==
    [op |-> "none", on |-> "none", subs |-> <<>>,
     result |-> ValidationResult("pass", <<>>)]

\* no call on the collector yet
NoCollection == [op |-> "none", inputs |-> <<>>, result |-> None]

\* nothing observed yet: a default validator, two empty snapshots
ObservationInit ==
    /\ validator = DefaultValidator
    /\ metrics = [baseline |-> TelemetryMetrics, current |-> TelemetryMetrics]
    /\ verdict = NoVerdict
    /\ collected = NoCollection

\* the devices as constructed, of the given types, with or without a node
DeploymentInit(types, nodes) ==
    /\ devs = {"dev1"}
    /\ \E t \in types, has_node \in nodes :
          dev = [d \in devs |-> NewDevice(d, t, has_node)]
    /\ node = [d \in devs |-> NewNode(dev[d].device_type)]
    /\ sess = [d \in devs |-> NewSession]
    /\ pc = [d \in devs |-> "out"]
    /\ issued = [d \in devs |-> <<>>]
    /\ last = [d |-> "dev1", op |-> "init", error |-> FALSE, calls |-> <<>>,
               cfg |-> NoConfig, commit |-> FALSE, fault |-> 0,
               cmds |-> <<>>, count |-> -1, trace |-> <<>>,
               pre |-> Pre("dev1"), raised |-> "none", again |-> FALSE]

Init == DeploymentInit(DeviceTypes, BOOLEAN) /\ ObservationInit

\* the history stays within the bound of the model
Fits(d, c) ==
    Len(dev[d].applied_config) + Len(ConfigLines(Configs[c])) <= MaxHistory

(* ---------------------------------------------------------------------- *)
(* Calls on the device object itself                                      *)
(* ---------------------------------------------------------------------- *)

\* the caller's code runs: outside the block or in its body, not while an
\* exception unwinds the block and not once an interrupt has ended it
Running(d) == pc[d] \in {"out", "body"}

DeviceCall(d, op, r, cfg, fault) ==
    /\ Running(d)
    /\ dev' = [dev EXCEPT ![d] = r.dev]
    /\ node' = [node EXCEPT ![d] = r.node]
    /\ last' = Last(d, op, r, <<>>, cfg, FALSE, fault)
    /\ UNCHANGED <<devs, sess, pc, issued>>
    /\ UNCHANGED observation

DevConnect(d) ==
    DeviceCall(d, "connect", connect(dev[d], node[d]), NoConfig, 0)

DevSendConfig(d, c, fault) ==
    /\ Fits(d, c)
    /\ DeviceCall(d, "send_config",
                  send_config(dev[d], node[d], Configs[c], fault), c, fault)

DevCommit(d) ==
    DeviceCall(d, "commit", commit(dev[d], node[d]), NoConfig, 0)

DevDisconnect(d) ==
    DeviceCall(d, "disconnect", disconnect(dev[d], node[d]), NoConfig, 0)

(* ---------------------------------------------------------------------- *)
(* Calls on the session, and the session as a scoped block                *)
(* ---------------------------------------------------------------------- *)

SessionCall(d, op, r, cfg, do_commit, fault, where) ==
    /\ sess' = [sess EXCEPT ![d] = r.sess]
    /\ dev' = [dev EXCEPT ![d] = r.dev]
    /\ node' = [node EXCEPT ![d] = r.node]
    /\ pc' = [pc EXCEPT ![d] = where]
    /\ last' = Last(d, op, r, r.calls, cfg, do_commit, fault)
    /\ UNCHANGED <<devs, issued>>
    /\ UNCHANGED observation

SessConnect(d) ==
    /\ pc[d] = "out"
    /\ SessionCall(d, "session.connect",
                   session_connect(sess[d], dev[d], node[d]),
                   NoConfig, FALSE, 0, pc[d])

SessDisconnect(d) ==
    /\ pc[d] = "out"
    /\ SessionCall(d, "session.disconnect",
                   session_disconnect(sess[d], dev[d], node[d]),
                   NoConfig, FALSE, 0, pc[d])

\* deploy_config, outside a block or as a statement of its body; an
\* exception raised in the body ends the body
SessDeploy(d, c, do_commit, fault) ==
    /\ pc[d] \in {"out", "body"}
    /\ Fits(d, c)
    /\ \E r \in {deploy_config(sess[d], dev[d], node[d], Configs[c], do_commit, fault)} :
          SessionCall(d, "deploy_config", r, c, do_commit, fault,
                      IF pc[d] = "body" /\ r.error THEN "failed" ELSE pc[d])

\* send_config cut short after its first k lines by an exception that
\* `except Exception` does not catch (an interrupt): nothing is appended to
\* the history
send_config_interrupted(D, nd, text, k) ==
    SendConfigInterrupted(D, LineLoop(D, nd, SubSeq(ConfigLines(text), 1, k), 0))

\* a deploy_config in the body of the block that is abandoned inside
\* send_config: the exception passes through deploy_config and ends the body
DeployAbandoned(d, c, k) ==
    /\ pc[d] = "body"
    /\ sess[d].connected /\ dev[d].connected /\ dev[d].has_node
    /\ k <= Len(ConfigLines(Configs[c]))
    /\ \E r \in {send_config_interrupted(dev[d], node[d], Configs[c], k)} :
          SessionCall(d, "deploy_abandoned",
                      SessionResult(sess[d], r, FALSE, <<"send_config">>),
                      c, TRUE, 0, "interrupted")

\* __enter__: connect; the body is entered unless connect raised
WithEnter(d) ==
    /\ pc[d] = "out"
    /\ \E r \in {session_enter(sess[d], dev[d], node[d])} :
          SessionCall(d, "__enter__", r, NoConfig, FALSE, 0,
                      IF r.error THEN "out" ELSE "body")

\* __exit__: disconnect, whether the body ended normally or by an
\* exception; an interrupt goes on to end the caller
WithExit(d) ==
    /\ pc[d] \in {"body", "failed", "interrupted"}
    /\ SessionCall(d, "__exit__",
                   session_exit(sess[d], dev[d], node[d]),
                   NoConfig, FALSE, 0,
                   IF pc[d] = "interrupted" THEN "gone" ELSE "out")

\* a session call on a device whose lifecycle method `method` raises if
\* `raises` says so; the call is recorded with the method that raised, if
\* the session came to call it
LifecycleCall(d, op, r, cfg, method, raises) ==
    /\ sess' = [sess EXCEPT ![d] = r.sess]
    /\ dev' = [dev EXCEPT ![d] = r.dev]
    /\ node' = [node EXCEPT ![d] = r.node]
    /\ last' = [Last(d, op, r, r.calls, cfg, TRUE, 0) EXCEPT
                  !.raised = IF raises /\ r.calls # <<>>
                                /\ r.calls[Len(r.calls)] = method
                             THEN method ELSE "none"]
    /\ UNCHANGED <<devs, pc, issued>>
    /\ UNCHANGED observation

LcConnect(d, raises) ==
    \E r \in {session_connect_on(sess[d], dev[d], node[d], raises)} :
        LifecycleCall(d, "session.connect", r, NoConfig, "connect", raises)

LcDeploy(d, c, raises) ==
    /\ Fits(d, c)
    /\ \E r \in {deploy_config_on(sess[d], dev[d], node[d], Configs[c], raises)} :
          LifecycleCall(d, "deploy_config", r, c, "commit", raises)

LcDisconnect(d, raises) ==
    \E r \in {session_disconnect_on(sess[d], dev[d], node[d], raises)} :
        LifecycleCall(d, "session.disconnect", r, NoConfig, "disconnect", raises)

\* the session driven over a device whose connect, commit and disconnect
\* can fail
LifecycleNext ==
    \/ \E d \in devs, raises \in BOOLEAN : LcConnect(d, raises)
    \/ \E d \in devs, c \in ConfigIds, raises \in BOOLEAN : LcDeploy(d, c, raises)
    \/ \E d \in devs, raises \in BOOLEAN : LcDisconnect(d, raises)

LifecycleSpec == Init /\ [][LifecycleNext]_vars

(* ---------------------------------------------------------------------- *)
(* Calls on the validator                                                 *)
(* ---------------------------------------------------------------------- *)

AvgLatencies == {2, 52, 53}

PacketLosses == {0, 5, 6, 50, 51, 100}

HopLists ==
    {<<>>, <<"10.0.1.1">>, <<"10.0.1.1", "10.0.2.1">>, <<"10.0.1.1", "10.0.3.1">>}

\* the snapshots handed to the validator: interface counters play no part
Snapshots ==
    [latency : {None} \cup {LatencyMetrics(a, a, a, l) : a \in AvgLatencies,
                                                   l \in PacketLosses},
     path : {None} \cup {PathMetrics(h) : h \in HopLists},
     interfaces : {<<>>}]

\* the validators of the callers: built with defaults, with path changes
\* allowed, and with thresholds of the caller's own
Validators ==
    {DefaultValidator,
     NetworkValidator(DefaultLatencyThresholdMs,
                      DefaultPacketLossThresholdPercent, TRUE),
     NetworkValidator(0, 1, TRUE)}

ValidatorInit ==
    /\ DeploymentInit({"host"}, {FALSE})
    /\ validator \in Validators
    /\ metrics \in [baseline : Snapshots, current : Snapshots]
    /\ verdict = NoVerdict
    /\ collected = NoCollection

Validate ==
    /\ verdict' = [op |-> "validate", on |-> "both",
                   subs |-> SubChecks(validator, metrics.baseline,
                                      metrics.current),
                   result |-> validate(validator, metrics.baseline,
                                       metrics.current)]
    /\ UNCHANGED <<validator, metrics, collected>>
    /\ UNCHANGED deployment

ValidateConnectivity(on) ==
    /\ verdict' = [op |-> "validate_connectivity", on |-> on, subs |-> <<>>,
                   result |-> validate_connectivity(validator, metrics[on])]
    /\ UNCHANGED <<validator, metrics, collected>>
    /\ UNCHANGED deployment

ValidatorNext ==
    \/ Validate
    \/ \E on \in {"baseline", "current"} : ValidateConnectivity(on)

ValidatorSpec == ValidatorInit /\ [][ValidatorNext]_vars

(* ---------------------------------------------------------------------- *)
(* Calls on the collector                                                 *)
(* ---------------------------------------------------------------------- *)

\* words, as written in a line: joined by single blanks
RECURSIVE Spaced(_)
Spaced(ws) ==
    IF ws = <<>> THEN <<>>
    ELSE IF Len(ws) = 1 THEN ws[1]
    ELSE ws[1] \o <<" ">> \o Spaced(Tail(ws))

\* lines, as written in a text: joined by newlines
RECURSIVE Lines(_)
Lines(ls) ==
    IF ls = <<>> THEN <<>>
    ELSE IF Len(ls) = 1 THEN ls[1]
    ELSE ls[1] \o <<"\n">> \o Lines(Tail(ls))

\* ping: a loss figure and a summary line
PingFull ==
    Lines(<<Spaced(<<<<"5">>, <<"packets">>, <<"transmitted", ",">>,
                     <<"0", "%">>, <<"packet">>, <<"loss">>>>),
            Spaced(<<<<"rtt">>, <<"min", "/", "avg", "/", "max", "/", "mdev">>,
                     <<"=">>,
                     <<"2", ".", "0", "/", "5", "2", "/", "6", "0", "/", "1">>,
                     <<"ms">>>>)>>)

\* ping: every packet lost, no summary line
PingAllLost ==
    Spaced(<<<<"5">>, <<"packets">>, <<"transmitted", ",">>,
             <<"1", "0", "0", "%">>, <<"packet">>, <<"loss">>>>)

\* ping: a summary line but no loss figure
PingNoLoss ==
    Spaced(<<<<"round-trip">>, <<"min", "/", "avg", "/", "max">>,
             <<"=">>, <<"2", "/", "2", "/", "2">>, <<"ms">>>>)

\* ping: no output, and an error message
PingEmpty == <<>>

PingUnknownHost == Spaced(<<<<"ping", ":">>, <<"unknown">>, <<"host">>>>)

\* ping: a summary line whose first figure is no number
PingBadFigure ==
    Spaced(<<<<"min", "/", "avg", "/", "max">>, <<"=">>,
             <<"1", ".", "2", ".", "3", "/", "4", "/", "5">>, <<"ms">>>>)

PingOutputs ==
    {PingFull, PingAllLost, PingNoLoss, PingEmpty, PingUnknownHost, PingBadFigure}

\* traceroute: a header, two hops that answered and one that did not
TracerouteFull ==
    Lines(<<Spaced(<<<<"traceroute">>, <<"to">>, <<"h", "2">>>>),
            Spaced(<<<<"1">>, <<"s", "1">>, <<"(", "10.0.1.1", ")">>,
                     <<"2">>, <<"ms">>>>),
            Spaced(<<<<"2">>, <<"*">>, <<"*">>, <<"*">>>>),
            Spaced(<<<<"3">>, <<"*">>, <<"(", "10.0.2.1", ")">>,
                     <<"2", ".", "0">>, <<"ms">>>>)>>)

TracerouteEmpty == <<>>

TracerouteUnreachable ==
    Spaced(<<<<"connect", ":">>, <<"Network">>, <<"unreachable">>>>)

\* traceroute: a hop whose latency is no number
TracerouteBadFigure ==
    Spaced(<<<<"1">>, <<"s", "1">>, <<"(", "10.0.1.1", ")">>,
             <<"1", ".", "2", ".", "3">>, <<"ms">>>>)

TracerouteOutputs ==
    {TracerouteFull, TracerouteEmpty, TracerouteUnreachable, TracerouteBadFigure}

\* sixteen statistics fields, the fourth being w
SixteenFields(w) ==
    <<<<"1", "0">>, <<"2">>, <<"0">>, w, <<"0">>, <<"0">>, <<"0">>, <<"0">>,
      <<"3", "0">>, <<"4">>, <<"0">>, <<"1">>, <<"0">>, <<"0">>, <<"0">>, <<"0">>>>

\* /proc/net/dev: a header line and one interface
ProcFull ==
    Lines(<<Spaced(<<<<"face">>, <<"|", "bytes">>, <<"packets">>>>),
            Spaced(<<<<"eth", "0", ":">>>> \o SixteenFields(<<"0">>))>>)

\* /proc/net/dev: a line with three fields, then a full one
ProcShortLine ==
    Lines(<<Spaced(<<<<"lo", ":">>, <<"1">>, <<"2">>, <<"3">>>>),
            Spaced(<<<<"eth", "0", ":">>>> \o SixteenFields(<<"5">>))>>)

ProcEmpty == <<>>

\* /proc/net/dev: sixteen fields, one of them no number
ProcBadField ==
    Spaced(<<<<"eth", "0", ":">>>> \o SixteenFields(<<"-">>))

ProcOutputs == {ProcFull, ProcShortLine, ProcEmpty, ProcBadField}

\* the ways running a tool can come out, for the outputs it can write
Invocations(outputs) ==
    {Invocation(TRUE, 0, <<>>)}
        \cup {Invocation(FALSE, 0, o) : o \in outputs}

\* a call on the collector: the operation, what the tools did, and the
\* outcome
Collection(op, inputs, result) ==
    [op |-> op, inputs |-> inputs, result |-> result]

ParsePing(output) ==
    /\ collected' = Collection("_parse_ping_output", <<output>>,
                               parse_ping_output(output))
    /\ UNCHANGED <<validator, metrics, verdict>>
    /\ UNCHANGED deployment

ParseTraceroute(output) ==
    /\ collected' = Collection("_parse_traceroute_output", <<output>>,
                               parse_traceroute_output(output))
    /\ UNCHANGED <<validator, metrics, verdict>>
    /\ UNCHANGED deployment

ParseProcNetDev(output) ==
    /\ collected' = Collection("_parse_proc_net_dev", <<output>>,
                               parse_proc_net_dev(output))
    /\ UNCHANGED <<validator, metrics, verdict>>
    /\ UNCHANGED deployment

CollectAll(has_manager, ping, traceroute, proc) ==
    /\ collected' = Collection("collect_all",
                               [has_manager |-> has_manager, ping |-> ping,
                                traceroute |-> traceroute, proc |-> proc],
                               collect_all(has_manager, ping, traceroute, proc))
    /\ UNCHANGED <<validator, metrics, verdict>>
    /\ UNCHANGED deployment

TelemetryNext ==
    \/ \E output \in PingOutputs : ParsePing(output)
    \/ \E output \in TracerouteOutputs : ParseTraceroute(output)
    \/ \E output \in ProcOutputs : ParseProcNetDev(output)
    \/ \E has_manager \in BOOLEAN, ping \in Invocations(PingOutputs),
          traceroute \in Invocations(TracerouteOutputs),
          proc \in Invocations(ProcOutputs) :
          CollectAll(has_manager, ping, traceroute, proc)

TelemetryInit == DeploymentInit({"host"}, {FALSE}) /\ ObservationInit

\* the exit statuses of a tool: success, failure, and a usage or
\* resolution error
ReturnCodes == {0, 1, 2}

\* the ways running a tool can come out when its exit status is looked
\* at too: it timed out (subprocess.TimeoutExpired is raised), or it
\* exited with some status, having written some output
Exits(outputs) ==
    {Invocation(TRUE, 0, <<>>)}
        \cup {Invocation(FALSE, rc, o) : rc \in ReturnCodes, o \in outputs}

CollectLatency(has_manager, inv) ==
    /\ collected' = Collection("collect_latency",
                               [has_manager |-> has_manager, tool |-> inv],
                               collect_latency(inv))
    /\ UNCHANGED <<validator, metrics, verdict>>
    /\ UNCHANGED deployment

CollectPath(has_manager, inv) ==
    /\ collected' = Collection("collect_path",
                               [has_manager |-> has_manager, tool |-> inv],
                               collect_path(inv))
    /\ UNCHANGED <<validator, metrics, verdict>>
    /\ UNCHANGED deployment

CollectInterfaceCounters(has_manager, inv) ==
    /\ collected' = Collection("collect_interface_counters",
                               [has_manager |-> has_manager, tool |-> inv],
                               collect_interface_counters(inv))
    /\ UNCHANGED <<validator, metrics, verdict>>
    /\ UNCHANGED deployment

\* the collection steps on their own and within collect_all, the tools
\* timing out or exiting with any status
CollectionNext ==
    \/ \E has_manager \in BOOLEAN, inv \in Exits(PingOutputs) :
          CollectLatency(has_manager, inv)
    \/ \E has_manager \in BOOLEAN, inv \in Exits(TracerouteOutputs) :
          CollectPath(has_manager, inv)
    \/ \E has_manager \in BOOLEAN, inv \in Exits(ProcOutputs) :
          CollectInterfaceCounters(has_manager, inv)
    \/ \E has_manager \in BOOLEAN, ping \in Exits({PingFull, PingEmpty}),
          traceroute \in Exits({TracerouteFull}), proc \in Exits({ProcFull}) :
          CollectAll(has_manager, ping, traceroute, proc)

CollectionSpec == TelemetryInit /\ [][CollectionNext]_vars

TelemetrySpec == TelemetryInit /\ [][TelemetryNext]_vars

\* the device driven by calls on the device object alone
DeviceNext ==
    \/ \E d \in devs : DevConnect(d)
    \/ \E d \in devs, c \in ConfigIds, fault \in 0..MaxFaultPos :
          DevSendConfig(d, c, fault)
    \/ \E d \in devs : DevCommit(d)
    \/ \E d \in devs : DevDisconnect(d)

DeviceSpec == Init /\ [][DeviceNext]_vars

\* the device driven through its session, by explicit calls and as a
\* scoped block, while the device object can be connected and disconnected
\* behind the session's back
Next ==
    \/ \E d \in devs : DevConnect(d)
    \/ \E d \in devs : DevDisconnect(d)
    \/ \E d \in devs : SessConnect(d)
    \/ \E d \in devs : SessDisconnect(d)
    \/ \E d \in devs, c \in ConfigIds, do_commit \in BOOLEAN, fault \in 0..MaxFaultPos :
          SessDeploy(d, c, do_commit, fault)
    \/ \E d \in devs, c \in ConfigIds, k \in 0..MaxInterruptLine : DeployAbandoned(d, c, k)
    \/ \E d \in devs : WithEnter(d)
    \/ \E d \in devs : WithExit(d)

Spec == Init /\ [][Next]_vars

(* ---------------------------------------------------------------------- *)
(* Properties                                                             *)
(* ---------------------------------------------------------------------- *)

IsPrefix(a, b) == Len(a) <= Len(b) /\ SubSeq(b, 1, Len(a)) = a

\* the call recorded in l ran send_config on device d, directly or through
\* deploy_config
RanSendConfig(l, d) ==
    /\ l.d = d
    /\ \/ l.op = "send_config"
       \/ l.op = "deploy_config" /\ l.calls # <<>>

\* the device can take a configuration: it is connected and has a node
Usable(D) == D.connected /\ D.has_node

\* C1: send_config on a device that is not connected, or that has no
\* node, raises DeviceConnectionError; no command is handed to the
\* executor, and the device (history, pending flag, connection status)
\* and its node are as before.
C1_SendConfigRefused ==
    [][\A d \in devs :
          (RanSendConfig(last', d) /\ ~Usable(dev[d]))
          => /\ last'.error
             /\ last'.cmds = <<>>
             /\ dev'[d] = dev[d]
             /\ node'[d] = node[d]]_vars

\* C1 witness: send_config was refused on a disconnected device that holds
\* a history and a pending change
C1_Witness ==
    /\ last.op = "send_config"
    /\ last.error
    /\ ~last.pre.connected
    /\ dev[last.d].has_node
    /\ dev[last.d].applied_config # <<>>
    /\ dev[last.d].config_pending

\* the lines a send_config of text c processes
LinesOf(c) == ConfigLines(Configs[c])

\* C2: in a send_config on a usable device, a line that fails (the
\* executor raises on one of its commands, or the line is malformed) is
\* absorbed: the call raises nothing, every line of the text is gone
\* through in input order, a line that did not fail issues all the commands
\* it issues when nothing fails, and the count reported is the number of
\* non-blank, non-comment lines.
C2_LineFailureAbsorbed ==
    [][\A d \in devs :
          (RanSendConfig(last', d) /\ Usable(dev[d]))
          => LET lines == LinesOf(last'.cfg)
                 clean == LineLoop(dev[d], node[d], lines, 0).trace
             IN  /\ ~last'.error
                 /\ last'.count = Len(lines)
                 /\ Len(last'.trace) = Len(lines)
                 /\ \A i \in 1..Len(lines) :
                       /\ last'.trace[i].kind = LineKind(lines[i])
                       /\ \/ last'.trace[i].raised
                          \/ last'.trace[i].ncmds = clean[i].ncmds]_vars

\* C2 witness: a call in which the executor raised on a command of one
\* line, a malformed line or a later line followed, and a line after the
\* failure issued its commands
C2_Witness ==
    /\ last.op = "send_config"
    /\ ~last.error
    /\ \E i, j \in 1..Len(last.trace) :
          /\ i < j
          /\ last.trace[i].raised /\ last.trace[i].ncmds > 0
          /\ ~last.trace[j].raised /\ last.trace[j].ncmds > 0

\* a line that is none of hostname, interface, ip address, ip route
UnknownLine(line) ==
    /\ ~IsBlank(line) /\ ~IsComment(line)
    /\ line.words[1] \notin {"hostname", "interface", "ip"}
    /\ ~HasIpAddress(line)

\* the text without its line i
RemoveLine(text, i) == SubSeq(text, 1, i - 1) \o SubSeq(text, i + 1, Len(text))

\* the send_config of the text of call l without its line i, from the
\* state the call started in
WithoutLine(l, d, i) ==
    send_config(dev[d], node[d], RemoveLine(Configs[l.cfg], i), l.fault)

\* C3 as stated: a configuration with an unknown line reports the same
\* line count as the configuration without that line.
C3_SameCountAsWithout ==
    [][\A d \in devs :
          (RanSendConfig(last', d) /\ Usable(dev[d]))
          => \A i \in 1..Len(Configs[last'.cfg]) :
                UnknownLine(Configs[last'.cfg][i])
                => last'.count = WithoutLine(last', d, i).count]_vars

\* C3 amended: a configuration with an unknown line processes its other
\* lines as the configuration without that line does (the same commands,
\* the same network state) and reports a line count one greater: the
\* unknown line is counted.
C3_UnknownLineCounted ==
    [][\A d \in devs :
          (RanSendConfig(last', d) /\ Usable(dev[d]))
          => \A i \in 1..Len(Configs[last'.cfg]) :
                UnknownLine(Configs[last'.cfg][i])
                => /\ last'.count = WithoutLine(last', d, i).count + 1
                   /\ last'.cmds = WithoutLine(last', d, i).cmds
                   /\ node'[d] = WithoutLine(last', d, i).node]_vars

\* C3 witness: a configuration with an unknown line was applied and its
\* other lines issued commands
C3_Witness ==
    /\ last.op = "send_config"
    /\ ~last.error
    /\ \E i \in 1..Len(Configs[last.cfg]) : UnknownLine(Configs[last.cfg][i])
    /\ \E j \in 1..Len(last.trace) :
          last.trace[j].kind = "ip_address" /\ last.trace[j].ncmds > 0

\* C4: the history is append-only: over every call the history before is
\* a prefix of the history after; a send_config that completes appends
\* exactly the non-blank, non-comment lines of its text, in order, and
\* leaves the pending flag set (until the commit of the same deploy_config).
C4_HistoryAppendOnly ==
    [][\A d \in devs :
          /\ IsPrefix(dev[d].applied_config, dev'[d].applied_config)
          /\ (RanSendConfig(last', d) /\ Usable(dev[d]))
             => /\ dev'[d].applied_config
                     = dev[d].applied_config \o LinesOf(last'.cfg)
                /\ dev'[d].config_pending
                     = ~(last'.op = "deploy_config" /\ last'.commit)]_vars

\* C4 witness: a send_config appended its lines to a history that held
\* lines already
C4_Witness ==
    /\ last.op = "send_config"
    /\ ~last.error
    /\ LinesOf(last.cfg) # <<>>
    /\ Len(dev[last.d].applied_config) > Len(LinesOf(last.cfg))
    /\ dev[last.d].config_pending

\* C5: a send_config of the text the call before it sent, with the
\* executor behaving as it did then (no command raising, or the same one),
\* leaves the network state of the node (hostname, addresses of each
\* interface, routes, links, sysctls) as the first application left it.
C5_SendConfigIdempotent ==
    [][\A d \in devs :
          (/\ RanSendConfig(last, d) /\ ~last.error
           /\ RanSendConfig(last', d) /\ ~last'.error
           /\ last'.cfg = last.cfg
           /\ last'.fault = last.fault)
          => node'[d] = node[d]]_vars

\* C5 witness: the same text was sent twice in succession and the second
\* application issued commands
C5_Witness ==
    /\ last.op = "send_config"
    /\ ~last.error
    /\ last.again
    /\ last.fault = 0
    /\ \E j \in 1..Len(last.trace) :
          /\ last.trace[j].kind = "ip_address"
          /\ last.trace[j].ncmds > 0
          /\ ~last.trace[j].raised

\* C6: commit on a connected device raises nothing, hands no command to
\* the executor, and changes nothing but the pending flag, which is clear
\* afterwards; so it is with nothing pending, too.
C6_CommitOnlyClearsPending ==
    [][\A d \in devs :
          (last'.op = "commit" /\ last'.d = d /\ dev[d].connected)
          => /\ ~last'.error
             /\ last'.cmds = <<>>
             /\ dev'[d] = [dev[d] EXCEPT !.config_pending = FALSE]
             /\ node'[d] = node[d]
             /\ sess'[d] = sess[d]]_vars

\* C6 witness: a commit cleared a pending change
C6_Witness ==
    /\ last.op = "commit"
    /\ ~last.error
    /\ last.pre.pending
    /\ ~dev[last.d].config_pending
    /\ dev[last.d].applied_config # <<>>

\* C7: connect on a session whose device has no node raises
\* DeviceConnectionError and leaves session and device disconnected.
C7_ConnectWithoutNode ==
    [][\A d \in devs :
          (/\ last'.op \in {"session.connect", "__enter__"}
           /\ last'.d = d
           /\ ~dev[d].has_node)
          => /\ last'.error
             /\ last'.calls = <<"connect">>
             /\ ~sess'[d].connected
             /\ ~dev'[d].connected]_vars

\* C7 witness: a session connect was refused by a device without a node
C7_Witness ==
    /\ last.op = "session.connect"
    /\ last.error
    /\ ~dev[last.d].has_node
    /\ ~sess[last.d].connected

\* C8: deploy_config on a session that is not connected raises without
\* calling the device; on a connected session it calls send_config and
\* then commit, the latter only when asked to and only after send_config
\* succeeded; it raises exactly when a device step failed, and then the
\* session is still connected and nothing applied before is taken back.
C8_Deploy ==
    [][\A d \in devs :
          (last'.op = "deploy_config" /\ last'.d = d)
          => /\ ~sess[d].connected
                => /\ last'.error
                   /\ last'.calls = <<>>
                   /\ dev'[d] = dev[d]
                   /\ node'[d] = node[d]
                   /\ sess'[d] = sess[d]
             /\ sess[d].connected
                => /\ sess'[d].connected
                   /\ last'.error = ~Usable(dev[d])
                   /\ last'.calls =
                        IF Usable(dev[d]) /\ last'.commit
                        THEN <<"send_config", "commit">>
                        ELSE <<"send_config">>
                   /\ IsPrefix(dev[d].applied_config, dev'[d].applied_config)
                   /\ last'.error => (dev'[d] = dev[d] /\ node'[d] = node[d])]_vars

\* C8 witness: a deploy_config failed on a connected session whose device
\* holds an earlier configuration, and the session is still connected
C8_Witness ==
    /\ last.op = "deploy_config"
    /\ last.error
    /\ last.pre.session
    /\ last.calls = <<"send_config">>
    /\ sess[last.d].connected
    /\ dev[last.d].applied_config # <<>>

\* the call recorded in l is a disconnect of the session on d
RanSessionDisconnect(l, d) ==
    l.d = d /\ l.op \in {"session.disconnect", "__exit__"}

\* C9: disconnect of a session raises nothing and leaves the session
\* disconnected, whatever state it is in (after a failed deploy_config
\* too); on a disconnected session, and so right after another disconnect,
\* it does not call the device and changes nothing.
C9_DisconnectIdempotent ==
    [][\A d \in devs :
          RanSessionDisconnect(last', d)
          => /\ ~last'.error
             /\ ~sess'[d].connected
             /\ (~sess[d].connected \/ RanSessionDisconnect(last, d))
                => /\ last'.calls = <<>>
                   /\ dev'[d] = dev[d]
                   /\ node'[d] = node[d]
                   /\ sess'[d] = sess[d]]_vars

\* C9 witness: a disconnect right after a disconnect
C9_Witness ==
    /\ last.op = "session.disconnect"
    /\ last.again
    /\ last.calls = <<>>
    /\ dev[last.d].applied_config # <<>>

\* C10: leaving the block calls disconnect on the device exactly once,
\* whether the body ended normally, by a failed deploy_config or by an
\* abandoned one, and the device and the session are disconnected then.
C10_ExitDisconnectsOnce ==
    [][\A d \in devs :
          (last'.op = "__exit__" /\ last'.d = d)
          => /\ pc[d] \in {"body", "failed", "interrupted"}
             /\ last'.calls = <<"disconnect">>
             /\ ~last'.error
             /\ ~dev'[d].connected
             /\ ~sess'[d].connected
             /\ pc'[d] \in {"out", "gone"}]_vars

\* C10 witness: the block was left after a deploy_config in it failed
C10_Witness ==
    /\ last.op = "__exit__"
    /\ last.pre.pc = "failed"
    /\ last.calls = <<"disconnect">>
    /\ ~dev[last.d].connected

\* a lifecycle method of the device on d raised in the call recorded in l
DeviceFailedIn(l, d) == l.d = d /\ l.raised # "none"

\* C11: a failure of the device in connect, commit or disconnect, met by
\* a session call, is raised to the caller of that call as DeviceError.
C11_LifecycleFailureSurfaced ==
    [][\A d \in devs : DeviceFailedIn(last', d) => last'.error]_vars

\* C11 witness: the device's disconnect raised inside the session's
\* disconnect; the call returned normally and the session stays connected
C11_Witness ==
    /\ last.op = "session.disconnect"
    /\ last.raised = "disconnect"
    /\ ~last.error
    /\ sess[last.d].connected
    /\ dev[last.d].applied_config # <<>>

\* C12: disconnect resets the device: after it the pending flag is cleared
\* and the history of applied lines is empty.
C12_DisconnectResets ==
    [][\A d \in devs :
          (last'.op = "disconnect" /\ last'.d = d)
          => /\ ~dev'[d].config_pending
             /\ dev'[d].applied_config = <<>>]_vars

\* C12 witness: a connected device with uncommitted lines was disconnected
\* and still has its history and its pending flag
C12_Witness ==
    /\ last.op = "disconnect"
    /\ last.pre.connected
    /\ last.pre.pending
    /\ ~dev[last.d].connected
    /\ dev[last.d].config_pending
    /\ dev[last.d].applied_config # <<>>

\* the sub-checks of the most recent validate that ran under the name check
SubsNamed(check) ==
    {i \in 1..Len(verdict.subs) : verdict.subs[i].check = check}

\* the sub-check named check ran, exactly once, with the given status
SubStatus(check, status) ==
    /\ Cardinality(SubsNamed(check)) = 1
    /\ \A i \in SubsNamed(check) : verdict.subs[i].result.status = status

BothHaveLatency ==
    Truthy(metrics.baseline.latency) /\ Truthy(metrics.current.latency)

LatencyIncrease ==
    metrics.current.latency.avg_latency_ms - metrics.baseline.latency.avg_latency_ms

LossIncrease ==
    metrics.current.latency.packet_loss_percent
        - metrics.baseline.latency.packet_loss_percent

\* C13: when both snapshots have latency metrics, the latency sub-check
\* fails if the average latency rose by more than the latency threshold and
\* passes otherwise, and the loss sub-check fails if the loss rose by more
\* than the loss threshold and passes otherwise; the thresholds of a
\* default validator are 50 and 5.
C13_ThresholdChecks ==
    /\ DefaultValidator.latency_threshold_ms = 50
    /\ DefaultValidator.packet_loss_threshold_percent = 5
    /\ (verdict.op = "validate" /\ BothHaveLatency)
       => /\ SubStatus("latency",
                       IF LatencyIncrease > validator.latency_threshold_ms
                       THEN "fail" ELSE "pass")
          /\ SubStatus("loss",
                       IF LossIncrease > validator.packet_loss_threshold_percent
                       THEN "fail" ELSE "pass")

\* C13 witness: a default validator compared snapshots whose latency rose
\* by exactly the threshold and whose loss rose by exactly the threshold,
\* and both sub-checks passed
C13_Witness ==
    /\ verdict.op = "validate"
    /\ validator = DefaultValidator
    /\ BothHaveLatency
    /\ LatencyIncrease = validator.latency_threshold_ms
    /\ LossIncrease = validator.packet_loss_threshold_percent
    /\ SubStatus("latency", "pass")
    /\ SubStatus("loss", "pass")

BothHavePath == Truthy(metrics.baseline.path) /\ Truthy(metrics.current.path)

PathDiffers == metrics.baseline.path.hops # metrics.current.path.hops

\* a sub-check named check ran and failed
SubFailed(check) ==
    \E i \in SubsNamed(check) : verdict.subs[i].result.status = "fail"

\* what the latency and the loss sub-checks determine
LatencyLossStatus ==
    IF SubFailed("latency") \/ SubFailed("loss") THEN "fail" ELSE "pass"

\* C14: when both snapshots have path metrics, the path sub-check reports
\* warning (never fail) if the hop sequences differ, and then the overall
\* status is fail where latency and loss alone give pass exactly if the
\* validator does not allow path changes; equal hop sequences give a path
\* sub-check of pass.
C14_PathCheck ==
    (verdict.op = "validate" /\ BothHavePath)
    => IF PathDiffers
       THEN /\ SubStatus("path", "warning")
            /\ LatencyLossStatus = "pass"
               => (verdict.result.status = "fail"
                      <=> ~validator.path_change_allowed)
       ELSE /\ SubStatus("path", "pass")
            /\ verdict.result.status = LatencyLossStatus

\* C14 witness: hop sequences of different length, path changes allowed,
\* latency and loss within thresholds: the path sub-check warns, the
\* verdict is pass
C14_Witness ==
    /\ verdict.op = "validate"
    /\ BothHavePath /\ BothHaveLatency
    /\ Len(metrics.baseline.path.hops) # Len(metrics.current.path.hops)
    /\ validator.path_change_allowed
    /\ SubStatus("path", "warning")
    /\ verdict.result.status = "pass"

\* C15: a validator built with defaults allows path changes, and with it
\* differing hop sequences leave the overall status at what the latency
\* and the loss sub-checks determined.
C15_DefaultAllowsPathChange ==
    /\ DefaultValidator.path_change_allowed
    /\ (/\ verdict.op = "validate"
        /\ validator = DefaultValidator
        /\ BothHavePath /\ PathDiffers)
       => verdict.result.status = LatencyLossStatus

\* C15 witness: a default validator, differing hop sequences, latency and
\* loss within thresholds, and a verdict of fail
C15_Witness ==
    /\ verdict.op = "validate"
    /\ validator = DefaultValidator
    /\ BothHavePath /\ PathDiffers
    /\ BothHaveLatency
    /\ LatencyLossStatus = "pass"
    /\ verdict.result.status = "fail"

\* the most severe status among the sub-checks that ran
MostSevere ==
    IF \E i \in 1..Len(verdict.subs) : verdict.subs[i].result.status = "fail"
    THEN "fail"
    ELSE IF \E i \in 1..Len(verdict.subs) :
                verdict.subs[i].result.status = "warning"
    THEN "warning"
    ELSE "pass"

\* C16 as stated: the overall status is the most severe status among the
\* sub-checks that ran.
C16_MostSevere ==
    verdict.op = "validate" => verdict.result.status = MostSevere

\* C16: the overall status is fail if the latency or the loss sub-check
\* failed, or if the path sub-check did not pass and the validator does
\* not allow path changes; otherwise it is pass. It is never warning.
C16_OverallStatus ==
    verdict.op = "validate"
    => verdict.result.status =
          IF \/ SubFailed("latency")
             \/ SubFailed("loss")
             \/ /\ ~SubStatus("path", "pass")
                /\ SubsNamed("path") # {}
                /\ ~validator.path_change_allowed
          THEN "fail" ELSE "pass"

\* C16 witness: the path sub-check warned, nothing failed, path changes
\* are allowed, and the overall status is pass
C16_Witness ==
    /\ verdict.op = "validate"
    /\ MostSevere = "warning"
    /\ validator.path_change_allowed
    /\ verdict.result.status = "pass"

\* the evidence of the sub-checks in subs, concatenated in their order
RECURSIVE DetailsOf(_)
DetailsOf(subs) ==
    IF subs = <<>> THEN <<>>
    ELSE Head(subs).result.details \o DetailsOf(Tail(subs))

\* C17: the latency and the loss sub-check run exactly if both snapshots
\* have latency metrics, the path sub-check exactly if both have path
\* metrics; the evidence is that of the sub-checks that ran, in the order
\* latency, loss, path; a skipped sub-check adds no line and no fail, so
\* with nothing to compare the verdict is pass with no evidence.
C17_SkippedSubChecks ==
    verdict.op = "validate"
    => /\ [i \in 1..Len(verdict.subs) |-> verdict.subs[i].check]
             = (IF BothHaveLatency THEN <<"latency", "loss">> ELSE <<>>)
                  \o (IF BothHavePath THEN <<"path">> ELSE <<>>)
       /\ verdict.result.details = DetailsOf(verdict.subs)
       /\ Len(verdict.result.details) >= Len(verdict.subs)
       /\ verdict.result.status = "fail" => MostSevere # "pass"
       /\ verdict.subs = <<>>
          => verdict.result = ValidationResult("pass", <<>>)

\* C17 witness: the baseline has latency and path, the current snapshot
\* has a path only: the latency and loss sub-checks are skipped, the path
\* sub-check ran
C17_Witness ==
    /\ verdict.op = "validate"
    /\ Truthy(metrics.baseline.latency)
    /\ ~Truthy(metrics.current.latency)
    /\ BothHavePath
    /\ Len(verdict.subs) = 1
    /\ verdict.result.details # <<>>

\* the snapshot the most recent validate_connectivity was given
Probed == metrics[verdict.on]

\* C18: validate_connectivity gives fail without latency metrics, fail
\* with the "100% packet loss" line at a loss of 100 or more, fail at a
\* loss above 50 and below 100, pass otherwise (at exactly 50 too), and
\* exactly one evidence line in every case.
C18_Connectivity ==
    verdict.op = "validate_connectivity"
    => /\ Len(verdict.result.details) = 1
       /\ IF ~Truthy(Probed.latency)
          THEN /\ verdict.result.status = "fail"
               /\ verdict.result.details[1].line
                     = "Connectivity validation failed: no latency metrics available"
          ELSE IF Probed.latency.packet_loss_percent >= 100
          THEN /\ verdict.result.status = "fail"
               /\ verdict.result.details[1].line
                     = "Connectivity failed: 100% packet loss"
          ELSE IF Probed.latency.packet_loss_percent > 50
          THEN /\ verdict.result.status = "fail"
               /\ verdict.result.details[1].line
                      # "Connectivity failed: 100% packet loss"
          ELSE verdict.result.status = "pass"

\* C18 witness: a snapshot with a loss of exactly 50 passed
C18_Witness ==
    /\ verdict.op = "validate_connectivity"
    /\ Truthy(Probed.latency)
    /\ Probed.latency.packet_loss_percent = 50
    /\ verdict.result.status = "pass"

\* the most recent call on the collector was a call of one of the parsers
RanParser ==
    collected.op \in {"_parse_ping_output", "_parse_traceroute_output",
                      "_parse_proc_net_dev"}

\* C19: the three parse functions raise on no text: whatever the output
\* they are given, they return a value.
C19_ParsersNeverRaise == RanParser => ~collected.result.raised

\* C19 witness: _parse_proc_net_dev was given a line of sixteen fields of
\* which one is not a number, and raised
C19_Witness ==
    /\ collected.op = "_parse_proc_net_dev"
    /\ collected.inputs = <<ProcBadField>>
    /\ Len(SplitWords(ProcBadField)) > StatsFields
    /\ collected.result.raised

\* the value a field of the snapshot has when its sub-step failed or was
\* not attempted
Absent(field) == TelemetryMetrics[field]

\* what the sub-step for a field does on its own
StepAlone(field) ==
    CASE field = "latency" -> collect_latency(collected.inputs.ping)
      [] field = "path" -> collect_path(collected.inputs.traceroute)
      [] field = "interfaces" -> collect_interface_counters(collected.inputs.proc)

\* C20: collect_all returns a snapshot whatever its sub-steps do; it
\* attempts latency, then path, then (with a topology manager) the
\* interface counters, whichever of them fail; each field holds what its
\* own sub-step returned, or is absent if that sub-step failed, whatever
\* the other sub-steps did.
C20_CollectAll ==
    collected.op = "collect_all"
    => /\ collected.result.attempted
             = <<"latency", "path">>
                  \o (IF collected.inputs.has_manager
                      THEN <<"interfaces">> ELSE <<>>)
       /\ \A i \in 1..Len(collected.result.attempted) :
             LET field == collected.result.attempted[i]
             IN  /\ field \in collected.result.failed <=> StepAlone(field).error
                 /\ collected.result.metrics[field]
                       = IF StepAlone(field).error THEN Absent(field)
                         ELSE StepAlone(field).value
       /\ ~collected.inputs.has_manager
          => collected.result.metrics.interfaces = Absent("interfaces")

\* C20 witness: the path sub-step failed between a latency sub-step and an
\* interface sub-step that both returned metrics
C20_Witness ==
    /\ collected.op = "collect_all"
    /\ collected.result.failed = {"path"}
    /\ collected.result.attempted = <<"latency", "path", "interfaces">>
    /\ Truthy(collected.result.metrics.latency)
    /\ ~Truthy(collected.result.metrics.path)
    /\ collected.result.metrics.interfaces # <<>>

\* the most recent call on the collector was a call of one collection step
RanStep ==
    collected.op \in {"collect_latency", "collect_path",
                      "collect_interface_counters"}

\* C21: a collection step whose tool timed out or exited with a non-zero
\* status raises TelemetryError and returns no metrics record.
C21_ToolFailureReported ==
    (/\ RanStep
     /\ \/ collected.inputs.tool.raises
        \/ collected.inputs.tool.returncode # 0)
    => /\ collected.result.error
       /\ collected.result.value = None

\* C21 witness: ping exited with status 2 and wrote nothing; collect_latency
\* returned a record of no loss and no latency
C21_Witness ==
    /\ collected.op = "collect_latency"
    /\ ~collected.inputs.tool.raises
    /\ collected.inputs.tool.returncode = 2
    /\ collected.inputs.tool.stdout = PingEmpty
    /\ ~collected.result.error
    /\ collected.result.value = LatencyMetrics(0, 0, 0, 0)

(* ---------------------------------------------------------------------- *)
(* Several sessions, each on a device of its own                          *)
(* ---------------------------------------------------------------------- *)

\* an attribute kept by the class, one value for all its objects
OwnedShared(f, d, v) == [e \in DOMAIN f |-> v]

\* an assignment to an attribute of object d: __init__ creates the
\* attributes on the object itself, so those of the other objects stay
Owned(f, d, v) == [f EXCEPT ![d] = v]

\* one call of a script
Call(op, c, do_commit, fault) ==
    [op |-> op, cfg |-> c, commit |-> do_commit, fault |-> fault]

CallConnect == Call("session.connect", NoConfig, FALSE, 0)

CallDisconnect == Call("session.disconnect", NoConfig, FALSE, 0)

\* the scripts a caller runs on its session: the usual one, one with two
\* deployments of which the first meets a failing command, and one that
\* deploys before it connects and never disconnects
Scripts ==
    {<<CallConnect, Call("deploy_config", 1, TRUE, 0), CallDisconnect>>,
     <<CallConnect, Call("deploy_config", 2, FALSE, 2),
       Call("deploy_config", 4, TRUE, 0), CallDisconnect>>,
     <<Call("deploy_config", 1, TRUE, 0), CallConnect,
       Call("deploy_config", 4, FALSE, 0)>>}

\* what one call of a script does on session S of device D
ScriptCall(c, S, D, nd) ==
    CASE c.op = "session.connect" -> session_connect(S, D, nd)
      [] c.op = "deploy_config" ->
            deploy_config(S, D, nd, Configs[c.cfg], c.commit, c.fault)
      [] c.op = "session.disconnect" -> session_disconnect(S, D, nd)

\* a session, its device, the node behind it and the commands given to it
Own(S, D, nd, cmds) == [sess |-> S, dev |-> D, node |-> nd, issued |-> cmds]

AfterCall(own, r) == Own(r.sess, r.dev, r.node, own.issued \o r.cmds)

\* the first k calls of a script run on a session with nothing else running
RECURSIVE Alone(_, _, _)
Alone(script, k, own) ==
    IF k = 0 THEN own
    ELSE AfterCall(Alone(script, k - 1, own),
                   ScriptCall(script[k],
                              Alone(script, k - 1, own).sess,
                              Alone(script, k - 1, own).dev,
                              Alone(script, k - 1, own).node))

\* two devices as constructed, each with a session and a script of its own
ConcurrentInit ==
    /\ devs = {"dev1", "dev2"}
    /\ \E types \in [devs -> DeviceTypes], nodes \in [devs -> BOOLEAN] :
          dev = [d \in devs |-> NewDevice(d, types[d], nodes[d])]
    /\ node = [d \in devs |-> NewNode(dev[d].device_type)]
    /\ sess = [d \in devs |-> NewSession]
    /\ pc \in [devs -> {[script |-> s, at |-> 1] : s \in Scripts}]
    /\ issued = [d \in devs |-> <<>>]
    /\ last = [d |-> "dev1", op |-> "init", error |-> FALSE, calls |-> <<>>,
               cfg |-> NoConfig, commit |-> FALSE, fault |-> 0,
               cmds |-> <<>>, count |-> -1, trace |-> <<>>,
               pre |-> Pre("dev1"), raised |-> "none", again |-> FALSE]
    /\ ObservationInit

\* the caller of session d makes the next call of its script
ScriptStep(d) ==
    /\ pc[d].at <= Len(pc[d].script)
    /\ \E c \in {pc[d].script[pc[d].at]} :
       \E r \in {ScriptCall(c, sess[d], dev[d], node[d])} :
          /\ sess' = Owned(sess, d, r.sess)
          /\ dev' = Owned(dev, d, r.dev)
          /\ node' = Owned(node, d, r.node)
          /\ issued' = Owned(issued, d, issued[d] \o r.cmds)
          /\ pc' = [pc EXCEPT ![d].at = @ + 1]
          /\ last' = Last(d, c.op, r, r.calls, c.cfg, c.commit, c.fault)
    /\ UNCHANGED devs
    /\ UNCHANGED observation

\* the callers run side by side: any of them takes the next step
ConcurrentNext == \E d \in devs : ScriptStep(d)

ConcurrentSpec == ConcurrentInit /\ [][ConcurrentNext]_vars

\* the session, the device, the node and the commands of d as they are
OwnOf(d) == Own(sess[d], dev[d], node[d], issued[d])

\* the same, had the caller of d run as far alone
AloneOf(d) ==
    Alone(pc[d].script, pc[d].at - 1,
          Own(NewSession,
              NewDevice(d, dev[d].device_type, dev[d].has_node),
              NewNode(dev[d].device_type), <<>>))

\* C22: with several sessions running side by side, each on a device of
\* its own, every session, device, node and issued command sequence is at
\* every point what it is when that session runs alone, and a step of one
\* session leaves every other session, device and node as it was
C22_SessionsIndependent ==
    /\ [](\A d \in devs : OwnOf(d) = AloneOf(d))
    /\ [][\A e \in devs \ {last'.d} :
              /\ sess'[e] = sess[e] /\ dev'[e] = dev[e]
              /\ node'[e] = node[e] /\ issued'[e] = issued[e]]_vars

\* both callers have finished their scripts, each device has taken lines
\* and commands of its own, and one session ended connected, the other not
C22_Witness ==
    /\ \A d \in devs : pc[d].at > Len(pc[d].script)
    /\ \A d \in devs : issued[d] # <<>> /\ dev[d].applied_config # <<>>
    /\ issued["dev1"] # issued["dev2"]
    /\ dev["dev1"].connected /\ ~dev["dev2"].connected

(* ---------------------------------------------------------------------- *)
(* What the lines of a text issue                                         *)
(* ---------------------------------------------------------------------- *)

Max(S) == CHOOSE x \in S : \A y \in S : x >= y

\* the number of commands the lines before line j issued in a call
RECURSIVE CmdsBefore(_, _)
CmdsBefore(trace, j) ==
    IF j <= 1 THEN 0 ELSE CmdsBefore(trace, j - 1) + trace[j - 1].ncmds

\* the commands line j issued in the call recorded in l
CmdsOfLine(l, j) ==
    SubSeq(l.cmds, CmdsBefore(l.trace, j) + 1,
           CmdsBefore(l.trace, j) + l.trace[j].ncmds)

\* the `interface <name>` lines before line j
InterfaceLinesBefore(lines, j) ==
    {i \in 1..(j - 1) :
        Len(lines[i].words) >= 2 /\ lines[i].words[1] = "interface"}

\* the eth suffix of the default interface
DefaultIf(device_type) == IF device_type = "switch" THEN <<"1">> ELSE <<"0">>

\* the interface line j of the lines is to configure: that of the most
\* recent `interface` line before it, the default one if there is none
ExpectedIf(lines, j, device_type) ==
    IF InterfaceLinesBefore(lines, j) = {} THEN DefaultIf(device_type)
    ELSE TargetIf(Tail(lines[Max(InterfaceLinesBefore(lines, j))].words),
                  device_type)

\* every command of cmds that names an interface names this one, and the
\* first of them does name one
AllOn(cmds, if_name) ==
    /\ cmds[1].dev = if_name
    /\ \A k \in 1..Len(cmds) : cmds[k].dev \in {NoIf, if_name}

\* the call recorded in l went through the lines of its text
SentLines(l) == RanSendConfig(l, l.d) /\ ~l.error /\ l.count >= 0

\* C23: in every send_config, an `ip address` line configures the
\* interface of the most recent `interface` line before it in the same
\* call, and the default interface (1 on a switch, 0 otherwise) when no
\* `interface` line comes before it in that call, whatever interface the
\* calls before selected.
C23_ContextPerCall ==
    SentLines(last) =>
        \A j \in 1..Len(last.trace) :
            (last.trace[j].kind = "ip_address" /\ last.trace[j].ncmds > 0)
            => AllOn(CmdsOfLine(last, j),
                     ExpectedIf(LinesOf(last.cfg), j,
                                dev[last.d].device_type))

\* C23 witness: the text that begins with an `ip address` line and then
\* selects eth1 was sent twice in succession; the second call configured
\* the default interface and left eth1 selected again
C23_Witness ==
    /\ last.op = "send_config" /\ ~last.error /\ last.again
    /\ last.cfg = 4
    /\ last.trace[1].kind = "ip_address"
    /\ last.cmds[1].dev = DefaultIf(dev[last.d].device_type)
    /\ dev[last.d].current_interface = <<"eth1">>

(* ---------------------------------------------------------------------- *)
(* The interface an `ip address` line configures                          *)
(* ---------------------------------------------------------------------- *)

\* interface names of the form eth<digits>, with their numbers
EthNumber(w) ==
    CASE w = "eth0" -> 0 [] w = "eth1" -> 1 [] w = "eth9" -> 9
      [] w = "eth10" -> 10 [] w = "eth19" -> 19

EthNames == {"eth0", "eth1", "eth9", "eth10", "eth19"}

\* interface names of other forms, with the numbers they end with
SuffixNumber(w) ==
    CASE w = "veth1" -> 1 [] w = "port2" -> 2 [] w = "ge-0/3" -> 3

OtherNames == {"veth1", "port2", "ge-0/3"}

\* a text that selects the interface and gives it an address
InterfaceText(name) ==
    <<Line(0, <<"interface", name>>),
      Line(1, <<"ip", "address", "10.0.0.9">>)>>

\* a text that gives an address with no interface selected
NoInterfaceText == <<Line(0, <<"ip", "address", "10.0.0.9">>)>>

InterfaceTexts ==
    {InterfaceText(name) : name \in EthNames \cup OtherNames}
        \cup {NoInterfaceText}

SendInterface(d, text) ==
    /\ Len(dev[d].applied_config) + Len(text) <= MaxHistory
    /\ DeviceCall(d, "send_config", send_config(dev[d], node[d], text, 0),
                  NoConfig, 0)

\* a device given addresses on interfaces of every kind of name
InterfaceNext ==
    \/ \E d \in devs : DevConnect(d)
    \/ \E d \in devs, text \in InterfaceTexts : SendInterface(d, text)

InterfaceSpec == Init /\ [][InterfaceNext]_vars

\* the call recorded in l gave an address on the interface selected just
\* before, and the call before it is left out of account
GaveAddress(l) ==
    /\ l.op = "send_config" /\ ~l.error
    /\ l.trace # <<>>
    /\ l.trace[Len(l.trace)].kind = "ip_address"

\* C24: an `ip address` line configures, with interface context ethN, the
\* interface N+1 on a switch and N on a device of another type, and with
\* no interface context the interface 1 on a switch and 0 otherwise; its
\* commands name it <device name>-eth<numeral>.
C24_TargetInterface ==
    GaveAddress(last) =>
        \E D \in {dev[last.d]} :
           \A k \in 1..Len(last.cmds) :
              last.cmds[k].dev # NoIf =>
                 IfName(D, last.cmds[k].dev) =
                    <<D.device_name, "-eth">> \o
                    (IF D.current_interface = NoInterface
                     THEN IF D.device_type = "switch" THEN <<"1">> ELSE <<"0">>
                     ELSE IF D.current_interface[1] \in EthNames
                     THEN IF D.device_type = "switch"
                          THEN ToStr(EthNumber(D.current_interface[1]) + 1)
                          ELSE ToStr(EthNumber(D.current_interface[1]))
                     ELSE last.cmds[k].dev)

\* C24 witness: eth19 on a switch came to <device name>-eth20
C24_Witness ==
    /\ GaveAddress(last)
    /\ dev[last.d].device_type = "switch"
    /\ dev[last.d].current_interface = <<"eth19">>
    /\ IfName(dev[last.d], last.cmds[1].dev) = <<last.d, "-eth", "2", "0">>

\* C25: whatever the name of the interface context, the interface an
\* `ip address` line configures has the number the name ends with, plus
\* one on a switch.
C25_TrailingSuffix ==
    (GaveAddress(last) /\ dev[last.d].current_interface # NoInterface) =>
        \E w \in {dev[last.d].current_interface[1]} :
        \E n \in {IF w \in EthNames THEN EthNumber(w) ELSE SuffixNumber(w)} :
           last.cmds[1].dev =
              IF dev[last.d].device_type = "switch"
              THEN ToStr(n + 1) ELSE ToStr(n)

\* C25 witness: with port2 selected, a switch configured its interface 1
\* and a host an interface named after the whole of the name
C25_Witness ==
    /\ GaveAddress(last)
    /\ dev[last.d].current_interface = <<"port2">>
    /\ last.cmds[1].dev =
          IF dev[last.d].device_type = "switch" THEN <<"1">>
          ELSE <<"p", "o", "r", "t", "2">>

(* ---------------------------------------------------------------------- *)
(* The commands of `ip address` and `ip route` lines                      *)
(* ---------------------------------------------------------------------- *)

Masks == {"255.255.255.0", "255.255.0.0", "255.0.0.0", "255.255.255.128"}

\* the words of an `ip address` line, with a mask or ("") without
AddressWords(mask) ==
    IF mask = "" THEN <<"ip", "address", "10.0.0.9">>
    ELSE <<"ip", "address", "10.0.0.9", mask>>

\* a text that selects an interface, gives it an address and goes on
AddressText(name, indent, mask) ==
    <<Line(0, <<"interface", name>>),
      Line(indent, AddressWords(mask)),
      Line(0, <<"hostname", "r9">>)>>

\* texts for an interface the node has (eth1) and one it has not (eth9),
\* so that the verification read finds the address or misses it
AddressTexts ==
    {AddressText(name, indent, mask) :
        name \in {"eth1", "eth9"}, indent \in {0, 1}, mask \in Masks \cup {""}}

SendAddress(d, text) ==
    /\ Len(dev[d].applied_config) + Len(text) <= MaxHistory
    /\ DeviceCall(d, "send_config", send_config(dev[d], node[d], text, 0),
                  NoConfig, 0)

AddressNext ==
    \/ \E d \in devs : DevConnect(d)
    \/ \E d \in devs, text \in AddressTexts : SendAddress(d, text)

AddressSpec == Init /\ [][AddressNext]_vars

\* the lines the call recorded in l went through, as the history has them
SentLinesOf(l) ==
    SubSeq(dev[l.d].applied_config,
           Len(dev[l.d].applied_config) - Len(l.trace) + 1,
           Len(dev[l.d].applied_config))

\* the operations of a sequence of commands
Ops(cmds) == [k \in 1..Len(cmds) |-> cmds[k].op]

\* the CIDR suffix for the words of an `ip address` line
SuffixFor(words) ==
    IF Len(words) < 4 THEN "/24"
    ELSE CASE words[4] = "255.255.255.0" -> "/24"
           [] words[4] = "255.255.0.0"   -> "/16"
           [] words[4] = "255.0.0.0"     -> "/8"
           [] OTHER                      -> "/24"

\* the verification read of the call found the address on the interface
Verified(l, if_name) ==
    /\ if_name \in DOMAIN node[l.d].addrs
    /\ node[l.d].addrs[if_name] # {}

\* C26: an `ip address <addr> [<mask>]` line, indented or not, issues a
\* flush of the resolved interface, an add of <addr> with the suffix of
\* the mask (/24, /16, /8 for the three known masks, /24 for any other or
\* none) and a link-up, then on a switch, and only there, the
\* IP-forwarding and the three ARP sysctls, and last the verification read;
\* the line after it is processed whether or not the read finds the
\* address.
C26_AddressCommands ==
    (last.op = "send_config" /\ ~last.error /\ Len(last.trace) = 3) =>
        \E cmds \in {CmdsOfLine(last, 2)},
           words \in {SentLinesOf(last)[2].words} :
           /\ last.trace[2].kind = "ip_address"
           /\ Ops(cmds) =
                 <<"addr_flush", "addr_add", "link_up">>
                 \o (IF dev[last.d].device_type = "switch"
                     THEN <<"ip_forward", "proxy_arp", "arp_ignore",
                            "arp_announce">>
                     ELSE <<>>)
                 \o <<"addr_show">>
           /\ AllOn(cmds, ExpectedIf(SentLinesOf(last), 2,
                                     dev[last.d].device_type))
           /\ cmds[2].args = <<words[3], SuffixFor(words)>>
           /\ Ops(CmdsOfLine(last, 3)) = <<"hostname">>
           /\ node[last.d].hostname = <<"r9">>

\* C26 witness: a switch was sent an indented line with the mask 255.0.0.0
\* for an interface its node has not; the read missed the address and the
\* hostname line after it was applied
C26_Witness ==
    /\ last.op = "send_config" /\ ~last.error /\ Len(last.trace) = 3
    /\ dev[last.d].device_type = "switch"
    /\ SentLinesOf(last)[2] = Line(1, AddressWords("255.0.0.0"))
    /\ CmdsOfLine(last, 2)[2].args = <<"10.0.0.9", "/8">>
    /\ ~Verified(last, CmdsOfLine(last, 2)[1].dev)
    /\ node[last.d].hostname = <<"r9">>

\* line is an unindented `ip route <network> <next-hop>` line
IsRouteLine(line) ==
    /\ line.indent = 0
    /\ Len(line.words) >= 4
    /\ line.words[1] = "ip" /\ line.words[2] = "route"

\* the route of such a line: its network in CIDR form and its next hop
RouteOf(line) ==
    (IF line.words[3] \in SlashWords THEN SlashParts(line.words[3])
     ELSE <<line.words[3], "24">>) \o <<line.words[4]>>

\* C27: a line that starts with `ip route <network> <next-hop>` issues a
\* removal of the route (the network in CIDR form, /24 if it has no
\* prefix, via the next hop) and then an add of the same route, and when
\* neither command raised the route is in the route set of the node after
\* the call, whether or not it was there before.
C27_RouteReplaced ==
    SentLines(last) =>
        \A j \in 1..Len(last.trace) :
            (IsRouteLine(LinesOf(last.cfg)[j]) /\ ~last.trace[j].raised)
            => \E cmds \in {CmdsOfLine(last, j)},
                  route \in {RouteOf(LinesOf(last.cfg)[j])} :
                  /\ Ops(cmds) = <<"route_del", "route_add">>
                  /\ \A k \in 1..2 : cmds[k].args = route /\ cmds[k].dev = NoIf
                  /\ route \in node[last.d].routes

\* C27 witness: the text with the route to 10.0.3.0/24 was sent twice in
\* succession; the second call found the route there, removed it and
\* added it again
C27_Witness ==
    /\ last.op = "send_config" /\ ~last.error /\ last.again
    /\ last.cfg = 3 /\ last.fault = 0
    /\ Ops(CmdsOfLine(last, 3)) = <<"route_del", "route_add">>
    /\ node[last.d].routes = {<<"10.0.3.0", "24", "10.0.0.254">>}

(* ---------------------------------------------------------------------- *)
(* Lines that are no command                                              *)
(* ---------------------------------------------------------------------- *)

\* lines that are none of hostname, interface, ip address and ip route
OtherLines ==
    {Line(0, <<"banner", "motd", "foo">>),
     Line(1, <<"description", "uplink">>),
     Line(1, <<"no", "shutdown">>)}

\* texts with such a line between an `interface` line and the address
\* line under it, and with such a line and no interface selected
OtherTexts ==
    {<<Line(0, <<"interface", name>>), other,
       Line(1, <<"ip", "address", "10.0.0.9">>)>> :
        name \in {"eth0", "eth1"}, other \in OtherLines}
    \cup {<<other, Line(0, <<"ip", "address", "10.0.0.9">>)>> :
            other \in OtherLines}

SendOther(d, text) ==
    /\ Len(dev[d].applied_config) + Len(text) <= MaxHistory
    /\ DeviceCall(d, "send_config", send_config(dev[d], node[d], text, 0),
                  NoConfig, 0)

OtherNext ==
    \/ \E d \in devs : DevConnect(d)
    \/ \E d \in devs, text \in OtherTexts : SendOther(d, text)

OtherSpec == Init /\ [][OtherNext]_vars

\* the interface context a call had before its line j
ContextBefore(l, j) ==
    IF j = 1 THEN NoInterface ELSE l.trace[j - 1].current_interface

\* C28: a line that is none of hostname, interface, ip address and ip
\* route issues no command, fails nothing and leaves the interface context
\* as the lines before it left it; an `interface <name>` line issues no
\* command and makes <name> the interface context.
C28_OtherLinesIgnored ==
    (last.op = "send_config" /\ ~last.error) =>
        \A j \in 1..Len(last.trace) :
           \E line \in {SentLinesOf(last)[j]} :
              /\ UnknownLine(line) =>
                    /\ last.trace[j].ncmds = 0
                    /\ ~last.trace[j].raised
                    /\ last.trace[j].current_interface = ContextBefore(last, j)
              /\ (Len(line.words) >= 2 /\ line.words[1] = "interface") =>
                    /\ last.trace[j].ncmds = 0
                    /\ ~last.trace[j].raised
                    /\ last.trace[j].current_interface = Tail(line.words)

\* C28 witness: on a switch, the line `no shutdown` stood between
\* `interface eth1` and the address line, and the address went to the
\* interface 2
C28_Witness ==
    /\ last.op = "send_config" /\ ~last.error
    /\ dev[last.d].device_type = "switch"
    /\ Len(last.trace) = 3
    /\ SentLinesOf(last)[2] = Line(1, <<"no", "shutdown">>)
    /\ last.trace[1].current_interface = <<"eth1">>
    /\ last.trace[2].current_interface = <<"eth1">>
    /\ last.trace[2].ncmds = 0
    /\ last.cmds[1].dev = <<"2">>

(* ---------------------------------------------------------------------- *)
(* A device driven through its session only                               *)
(* ---------------------------------------------------------------------- *)

SessionNext ==
    \/ \E d \in devs : SessConnect(d)
    \/ \E d \in devs, c \in ConfigIds, do_commit \in BOOLEAN, fault \in 0..MaxFaultPos :
          SessDeploy(d, c, do_commit, fault)
    \/ \E d \in devs : SessDisconnect(d)

SessionSpec == Init /\ [][SessionNext]_vars

\* C29: on a device that starts disconnected and is driven only through
\* one session, after any sequence of connect, deploy_config and
\* disconnect calls of the session, failed ones included, the session is
\* connected exactly when the device is.
C29_FlagsAgree ==
    \A d \in devs : sess[d].connected = dev[d].connected

\* C29 witness: a deploy_config was refused on a session that had been
\* connected, had deployed and had disconnected; neither flag is set
C29_Witness ==
    /\ last.op = "deploy_config" /\ last.error
    /\ dev[last.d].applied_config # <<>>
    /\ ~sess[last.d].connected
    /\ ~dev[last.d].connected

(* ---------------------------------------------------------------------- *)
(* The pending flag                                                       *)
(* ---------------------------------------------------------------------- *)

\* a text of which every line fails: two `ip address` lines with no
\* address
TextAllFail ==
    <<Line(1, <<"ip", "address">>),
      Line(1, <<"ip", "address">>)>>

\* a text with no line to process, one whose lines all fail, and one that
\* is applied
PendingTexts == {TextEmpty, TextAllFail, TextBanner}

SessDeployText(d, text, do_commit, fault) ==
    /\ pc[d] = "out"
    /\ Len(dev[d].applied_config) + Len(ConfigLines(text)) <= MaxHistory
    /\ SessionCall(d, "deploy_config",
                   deploy_config(sess[d], dev[d], node[d], text, do_commit, fault),
                   NoConfig, do_commit, fault, pc[d])

\* a device deployed to through its session and connected, committed and
\* disconnected directly as well
PendingNext ==
    \/ \E d \in devs : SessConnect(d)
    \/ \E d \in devs, text \in PendingTexts, do_commit \in BOOLEAN, fault \in 0..1 :
          SessDeployText(d, text, do_commit, fault)
    \/ \E d \in devs : SessDisconnect(d)
    \/ \E d \in devs : DevConnect(d)
    \/ \E d \in devs : DevCommit(d)
    \/ \E d \in devs : DevDisconnect(d)

PendingSpec == Init /\ [][PendingNext]_vars

\* the call recorded in l completed a send_config on d
SendCompleted(l, d) ==
    /\ l.d = d /\ ~l.error
    /\ l.op = "deploy_config"

\* the call recorded in l completed a commit on d
CommitCompleted(l, d) ==
    /\ l.d = d /\ ~l.error
    /\ \/ l.op = "commit"
       \/ l.op = "deploy_config" /\ l.commit

\* C30: the pending flag is set exactly when a send_config has completed
\* since the last commit: a deploy_config that succeeds leaves it clear
\* with commit and set without, whatever became of the lines of the text; a
\* commit on the connected device clears it; and every other call (connect
\* and disconnect, of the session or the device, and calls that fail)
\* leaves it as it was.
C30_PendingFlag ==
    [][\A d \in devs :
          dev'[d].config_pending =
             IF CommitCompleted(last', d) THEN FALSE
             ELSE IF SendCompleted(last', d) THEN TRUE
             ELSE dev[d].config_pending]_vars

\* all the lines the call recorded in l went through failed
AllFailed(l) ==
    /\ l.trace # <<>>
    /\ \A j \in 1..Len(l.trace) : l.trace[j].raised

\* C30 witness: the device has been reconnected after a disconnect, and
\* the change of a text of which every line failed, deployed without
\* commit before the disconnect, is still pending
C30_Witness ==
    /\ last.op = "session.connect" /\ ~last.error
    /\ ~last.pre.connected /\ last.pre.pending
    /\ dev[last.d].connected
    /\ dev[last.d].config_pending
    /\ dev[last.d].applied_config = ConfigLines(TextAllFail)

=============================================================================
